---- MODULE Spec2Model ----
(***************************************************************************)
(* Credential-pool scheduler and generation pipeline of sora2api.          *)
(*                                                                         *)
(* Spec     : streamed generation requests (handle_generation and the      *)
(*            remix / character branches) interleaved at their suspension  *)
(*            points, over the Token Lock, the Concurrency Limiter and the *)
(*            Task table.                                                  *)
(* SpecSel  : one call of LoadBalancer.select_token, step by step, over    *)
(*            credential rows drawn from small sets, with the store being  *)
(*            written between its suspension points.                       *)
(*                                                                         *)
(* Lock and limiter methods are coroutines that never suspend (an          *)
(* uncontended asyncio.Lock is taken without yielding), so each is one     *)
(* atomic update; database and upstream calls are suspension points.       *)
(***************************************************************************)
EXTENDS Integers, FiniteSets, Sequences, TLC

\* ------------------------------------------------------------------ bounds
NumTokens == 2
MaxStarts == 2
MaxTime == 3
\* config.image_timeout and config.video_timeout, in units of
\* config.poll_interval: a sleep of the polling loop ends with a Tick
ImageTimeout == 2
VideoTimeout == 2
\* stored ceilings of the credentials of Spec
ImageConcurrency == 1
VideoConcurrency == 1

Tokens == 1..NumTokens
\* two requests are served at a time
Requests == {1, 2}

VARIABLES
    now,            \* time.time() / datetime.now() / CURRENT_TIMESTAMP
    tokens,         \* table tokens: id -> row
    locks,          \* TokenLock._locks: token_id -> lock timestamp
    image_conc,     \* ConcurrencyManager._image_concurrency: token_id -> remaining
    video_conc,     \* ConcurrencyManager._video_concurrency: token_id -> remaining
    tasks,          \* table tasks: the row of each request being served
    started,        \* number of streamed requests accepted so far
    pc,             \* per request: where its coroutine is suspended
    kind,           \* per request: branch of handle_generation
    require_pro,    \* per request: model_config.get("require_pro", False)
    token_obj,      \* per request: the selected Token row ({} before selection)
    attempt,        \* per request: loop variable of _poll_task_result
    start_time,     \* per request: start_time of _poll_task_result
    calls,          \* per request: lock / limiter / upstream calls made so far
    sel,            \* SpecSel: the select_token call in progress
    req,            \* SpecReq: the streamed request followed to its end
    cache,          \* SpecCache: FileCache, its directory and its callers
    client,         \* SpecClient: proxy settings and SoraClient's last call
    route,          \* SpecRoute: the chat request parsed by the route
    stats           \* SpecStats: one row of token_stats and the events behind it

vars == <<now, tokens, locks, image_conc, video_conc, tasks, started, pc, kind,
          require_pro, token_obj, attempt, start_time, calls, sel, req,
                   cache, client, route, stats>>

\* ------------------------------------------------------------- credentials
\* A row of table tokens (core/models.py Token). An optional timestamp is the
\* empty set (NULL) or a singleton.
TokenRow(id, active, expired, cooled, expiry, plan, s2, s2cd, img, vid, ic, vc) ==
    [id |-> id, is_active |-> active, is_expired |-> expired,
     cooled_until |-> cooled, expiry_time |-> expiry, plan_type |-> plan,
     sora2_supported |-> s2, sora2_cooldown_until |-> s2cd,
     image_enabled |-> img, video_enabled |-> vid,
     image_concurrency |-> ic, video_concurrency |-> vc]

\* Database.get_active_tokens: the WHERE clause on one row
IsActiveRow(row) ==
    /\ row.is_active
    /\ \A c \in row.cooled_until : c < now
    /\ row.expiry_time > now

get_active_tokens == {tokens[t] : t \in {u \in Tokens : IsActiveRow(tokens[u])}}

\* --------------------------------------------------------------- TokenLock
lock_timeout == ImageTimeout

LockExpired_AtTimeout(L, id) == id \in DOMAIN L /\ now - L[id] >= lock_timeout

LockExpired(L, id) == id \in DOMAIN L /\ now - L[id] > lock_timeout

DropLock(L, id) == [t \in DOMAIN L \ {id} |-> L[t]]

\* TokenLock.acquire_lock: the returned bool and the lock map afterwards
acquire_lock_result(L, id) == id \notin DOMAIN L \/ LockExpired(L, id)

acquire_lock(L, id) ==
    IF acquire_lock_result(L, id)
    THEN [t \in DOMAIN L \cup {id} |-> IF t = id THEN now ELSE L[t]]
    ELSE L

\* TokenLock.release_lock
release_lock(L, id) == IF id \in DOMAIN L THEN DropLock(L, id) ELSE L

\* TokenLock.is_locked: the returned bool and the lock map afterwards
is_locked_result(L, id) == id \in DOMAIN L /\ ~LockExpired(L, id)

is_locked(L, id) == IF LockExpired(L, id) THEN DropLock(L, id) ELSE L

\* ------------------------------------------------------ ConcurrencyManager
\* ConcurrencyManager.initialize over all rows, for one of the two ceilings
initialize(rows, field) ==
    [t \in {u \in DOMAIN rows : rows[u][field] > 0} |-> rows[t][field]]

can_use_image(C, id) == id \notin DOMAIN C \/ C[id] > 0
can_use_video(C, id) == id \notin DOMAIN C \/ C[id] > 0

acquire_image_result(C, id) == id \notin DOMAIN C \/ C[id] > 0

acquire_image_Unguarded(C, id) ==
    IF id \in DOMAIN C THEN [C EXCEPT ![id] = @ - 1] ELSE C

acquire_image(C, id) ==
    IF id \in DOMAIN C /\ C[id] > 0 THEN [C EXCEPT ![id] = @ - 1] ELSE C

acquire_video_result(C, id) == id \notin DOMAIN C \/ C[id] > 0
acquire_video(C, id) ==
    IF id \in DOMAIN C /\ C[id] > 0 THEN [C EXCEPT ![id] = @ - 1] ELSE C

release_image(C, id) == IF id \in DOMAIN C THEN [C EXCEPT ![id] = @ + 1] ELSE C
release_video(C, id) == IF id \in DOMAIN C THEN [C EXCEPT ![id] = @ + 1] ELSE C


\* ----------------------------------------------------------- LoadBalancer
\* select_token: "Filter for Pro tokens if required"
ProFilter(rows, rp) ==
    IF rp THEN {row \in rows : row.plan_type = "chatgpt_pro"} ELSE rows

\* select_token: a row's Sora2 cooldown lies in the future
InSora2Cooldown(row) == \E c \in row.sora2_cooldown_until : c > now

\* select_token: a row's Sora2 cooldown has run out, so the row is refreshed
\* and read again before it is filtered
NeedsSora2Refresh(row) == \E c \in row.sora2_cooldown_until : c <= now

\* select_token: the for_video_generation loop over rows none of which needs
\* the refresh
VideoFilter(rows) ==
    {row \in rows : row.video_enabled /\ row.sora2_supported
                    /\ ~InSora2Cooldown(row)}

\* The sweep dropping every entry it meets, stale or not
ImageLockSweep_All(rows, L) ==
    LET gone == {row.id : row \in {x \in rows : x.image_enabled}}
    IN  [t \in DOMAIN L \ gone |-> L[t]]

\* select_token: the for_image_generation loop. is_locked is asked for every
\* row with image_enabled and drops the stale entries it meets.
ImageLockSweep(rows, L) ==
    LET stale == {row.id : row \in {x \in rows : x.image_enabled
                                                  /\ LockExpired(L, x.id)}}
    IN  [t \in DOMAIN L \ stale |-> L[t]]

\* The image loop without the is_locked test
ImageFilter_NoLockTest(rows, L, C) ==
    {row \in rows : row.image_enabled /\ can_use_image(C, row.id)}

ImageFilter(rows, L, C) ==
    {row \in rows : /\ row.image_enabled
                    /\ ~is_locked_result(L, row.id)
                    /\ can_use_image(C, row.id)}

\* select_token: the for_video_generation limiter loop
VideoSlotFilter(rows, C) == {row \in rows : can_use_video(C, row.id)}

\* select_token from the rows that passed the Pro and the video loops: the
\* set random.choice draws from (empty: None is returned)
FinalCandidates(rows, fi, fv) ==
    IF fi THEN ImageFilter(rows, locks, image_conc)
    ELSE IF fv THEN VideoSlotFilter(rows, video_conc)
    ELSE rows

\* -------------------------------------------------------------- the Tasks
\* Database.create_task / Database.update_task: update_task writes both
\* result_urls and error_message on every call.
NULL == "NULL"
create_task(T, id) ==
    [t \in DOMAIN T \cup {id} |->
        IF t = id THEN [status |-> "processing", result_urls |-> NULL,
                        error_message |-> NULL]
        ELSE T[t]]

update_task(T, id, status, result_urls, error_message) ==
    [t \in DOMAIN T |->
        IF t = id THEN [status |-> status, result_urls |-> result_urls,
                        error_message |-> error_message]
        ELSE T[t]]

\* -------------------------------------------------- GenerationHandler
Kinds == {"image", "video", "storyboard", "remix", "character"}

\* handle_generation proper (not the remix / character handlers)
IsNormal(r) == kind[r] \in {"image", "video", "storyboard"}
is_image(r) == kind[r] = "image"
is_video(r) == kind[r] # "image"

Tok(r) == CHOOSE row \in token_obj[r] : TRUE

\* _poll_task_result: timeout and max_attempts = int(timeout / poll_interval)
timeout(r) == IF is_video(r) THEN VideoTimeout ELSE ImageTimeout
max_attempts(r) == timeout(r)

NoCalls == [lock_acquired |-> FALSE, slot_acquired |-> FALSE,
            release_lock |-> 0, release_slot |-> 0, create |-> {}]

\* The releases written in handle_generation, after record_success and at the
\* head of its except block: lock and image slot for an image model, video
\* slot for a video model. _handle_remix and the character handlers hold no
\* such code.
HandlerLocks(r, L) ==
    IF IsNormal(r) /\ is_image(r) THEN release_lock(L, Tok(r).id) ELSE L
HandlerImage(r, C) ==
    IF IsNormal(r) /\ is_image(r) THEN release_image(C, Tok(r).id) ELSE C
HandlerVideo(r, C) ==
    IF IsNormal(r) /\ is_video(r) THEN release_video(C, Tok(r).id) ELSE C
HandlerCalls(r, c) ==
    IF IsNormal(r)
    THEN [c EXCEPT !.release_lock = IF is_image(r) THEN @ + 1 ELSE @,
                   !.release_slot = @ + 1]
    ELSE c

\* The releases written in _poll_task_result on timeout and on cf_shield_429:
\* "if not is_video and token_id" / "if is_video and token_id"
PollLocks(r, L) == IF is_video(r) THEN L ELSE release_lock(L, Tok(r).id)
PollImage(r, C) == IF is_video(r) THEN C ELSE release_image(C, Tok(r).id)
PollVideo(r, C) == IF is_video(r) THEN release_video(C, Tok(r).id) ELSE C
PollCalls(r, c) ==
    [c EXCEPT !.release_lock = IF is_video(r) THEN @ ELSE @ + 1,
              !.release_slot = @ + 1]



\* Every variable of request r that the step does not mention keeps its value.
Locals(r, p, tk, at, st, cl) ==
    /\ pc' = [pc EXCEPT ![r] = p]
    /\ token_obj' = [token_obj EXCEPT ![r] = tk]
    /\ attempt' = [attempt EXCEPT ![r] = at]
    /\ start_time' = [start_time EXCEPT ![r] = st]
    /\ calls' = [calls EXCEPT ![r] = cl]

\* _poll_task_result, head of the loop for attempt number at. The loop is
\* left when the attempts are used up ("for attempt in range(max_attempts)"
\* ends) or when elapsed_time > timeout; both paths release and then await
\* update_task. Otherwise the coroutine sleeps poll_interval.
\* T, st and cl are the Task table, the start_time and the calls of r as the
\* step has them so far.
LoopHead(r, at, st, T, cl) ==
    IF at >= max_attempts(r) \/ now - st > timeout(r)
    THEN /\ locks' = PollLocks(r, locks)
         /\ image_conc' = PollImage(r, image_conc)
         /\ video_conc' = PollVideo(r, video_conc)
         /\ tasks' = T
         /\ Locals(r, "fail_update", token_obj[r], at, st, PollCalls(r, cl))
    ELSE /\ tasks' = T
         /\ Locals(r, "sleep", token_obj[r], at, st, cl)
         /\ UNCHANGED <<locks, image_conc, video_conc>>

\* An exception reaches the except block of the handler: its releases run
\* before its first await (record_error).
RaiseToHandler(r, T) ==
    /\ locks' = HandlerLocks(r, locks)
    /\ image_conc' = HandlerImage(r, image_conc)
    /\ video_conc' = HandlerVideo(r, video_conc)
    /\ tasks' = T
    /\ Locals(r, "handler", token_obj[r], 0, 0, HandlerCalls(r, calls[r]))

\* POST /v1/chat/completions with stream = true reaches handle_generation.
Start(r) ==
    /\ pc[r] = "idle"
    /\ started < MaxStarts
    /\ \E k \in Kinds, rp \in BOOLEAN :
          /\ k = "image" => ~rp
          /\ kind' = [kind EXCEPT ![r] = k]
          /\ require_pro' = [require_pro EXCEPT ![r] = rp]
    /\ started' = started + 1
    /\ pc' = [pc EXCEPT ![r] = "select"]
    /\ UNCHANGED <<now, tokens, locks, image_conc, video_conc, tasks, token_obj,
                   attempt, start_time, calls, sel, req,
                   cache, client, route, stats>>

\* The predicates each branch passes to select_token.
for_image_generation(r) == IsNormal(r) /\ is_image(r)
for_video_generation(r) == ~for_image_generation(r)
SelectRequirePro(r) == IsNormal(r) /\ require_pro[r]

\* select_token, then the acquisitions of handle_generation. Between the rows
\* coming back from the store and acquire_lock / acquire_image / acquire_video
\* nothing suspends.
SelectAndAcquire(r) ==
    /\ pc[r] = "select"
    /\ LET fi == for_image_generation(r)
           fv == for_video_generation(r)
           pro == ProFilter(get_active_tokens, SelectRequirePro(r))
           rows == IF fv THEN VideoFilter(pro) ELSE pro
           L1 == IF fi THEN ImageLockSweep(rows, locks) ELSE locks
           cands == FinalCandidates(rows, fi, fv)
       IN  IF cands = {}
           THEN \* "No available tokens ...": raised before the try block
                /\ locks' = L1
                /\ Locals(r, "failed", {}, 0, 0, calls[r])
                /\ UNCHANGED <<image_conc, video_conc>>
           ELSE \E row \in cands :
                  IF ~IsNormal(r)
                  THEN /\ Locals(r, "create", {row}, 0, 0, calls[r])
                       /\ UNCHANGED <<locks, image_conc, video_conc>>
                  ELSE IF fi
                  THEN IF ~acquire_lock_result(L1, row.id)
                       THEN /\ locks' = L1
                            /\ Locals(r, "failed", {row}, 0, 0, calls[r])
                            /\ UNCHANGED <<image_conc, video_conc>>
                       ELSE IF ~acquire_image_result(image_conc, row.id)
                       THEN /\ locks' = release_lock(acquire_lock(L1, row.id), row.id)
                            /\ Locals(r, "failed", {row}, 0, 0,
                                      [calls[r] EXCEPT !.lock_acquired = TRUE,
                                                       !.release_lock = @ + 1])
                            /\ UNCHANGED <<image_conc, video_conc>>
                       ELSE /\ locks' = acquire_lock(L1, row.id)
                            /\ image_conc' = acquire_image(image_conc, row.id)
                            /\ Locals(r, "create", {row}, 0, 0,
                                      [calls[r] EXCEPT !.lock_acquired = TRUE,
                                                       !.slot_acquired = TRUE])
                            /\ UNCHANGED video_conc
                  ELSE IF ~acquire_video_result(video_conc, row.id)
                       THEN /\ Locals(r, "failed", {row}, 0, 0, calls[r])
                            /\ UNCHANGED <<locks, image_conc, video_conc>>
                       ELSE /\ video_conc' = acquire_video(video_conc, row.id)
                            /\ Locals(r, "create", {row}, 0, 0,
                                      [calls[r] EXCEPT !.slot_acquired = TRUE])
                            /\ UNCHANGED <<locks, image_conc>>
    /\ UNCHANGED <<now, tokens, tasks, started, kind, require_pro, sel, req,
                   cache, client, route, stats>>

\* Upload (if any) and the upstream create succeed: generate_image,
\* generate_video, generate_storyboard or remix_video returns a task id;
\* create_task, record_usage, and _poll_task_result starts.
CreateOk(r) ==
    /\ pc[r] = "create"
    /\ LoopHead(r, 0, now, create_task(tasks, r),
                [calls[r] EXCEPT !.create = {Tok(r).id}])
    /\ UNCHANGED <<now, tokens, started, kind, require_pro, sel, req,
                   cache, client, route, stats>>

\* The upload, the character steps or the upstream create raises.
CreateFail(r) ==
    /\ pc[r] = "create"
    /\ RaiseToHandler(r, tasks)
    /\ UNCHANGED <<now, tokens, started, kind, require_pro, sel, req,
                   cache, client, route, stats>>

\* The poll finds the task still pending, or not listed at all, or (image)
\* succeeded without any url: the loop goes on.
PollContinue(r) ==
    /\ pc[r] = "polling"
    /\ LoopHead(r, attempt[r] + 1, start_time[r], tasks, calls[r])
    /\ UNCHANGED <<now, tokens, started, kind, require_pro, sel, req,
                   cache, client, route, stats>>

\* The image task is reported processing with a progress more than 20 points
\* above the last one written: update_task(processing, progress), which also
\* writes result_urls and error_message back to NULL; the loop goes on.
PollProgress(r) ==
    /\ pc[r] = "polling"
    /\ ~is_video(r)
    /\ LoopHead(r, attempt[r] + 1, start_time[r],
                update_task(tasks, r, "processing", NULL, NULL), calls[r])
    /\ UNCHANGED <<now, tokens, started, kind, require_pro, sel, req,
                   cache, client, route, stats>>

\* The poll finds the result: the draft with a url, or the image task
\* succeeded with urls. update_task(completed, result_urls = [...]), the
\* final chunks, return.
PollCompleted(r) ==
    /\ pc[r] = "polling"
    /\ tasks' = update_task(tasks, r, "completed", "[url]", NULL)
    /\ pc' = [pc EXCEPT ![r] = "post_poll"]
    /\ UNCHANGED <<now, tokens, locks, image_conc, video_conc, started, kind,
                   require_pro, token_obj, attempt, start_time, calls, sel, req,
                   cache, client, route, stats>>

\* The draft is a content violation: update_task(failed), release_video "if
\* token_id and self.concurrency_manager", the violation chunks, return.
PollViolation(r) ==
    /\ pc[r] = "polling"
    /\ is_video(r)
    /\ tasks' = update_task(tasks, r, "failed", NULL, "text")
    /\ video_conc' = release_video(video_conc, Tok(r).id)
    /\ pc' = [pc EXCEPT ![r] = "post_poll"]
    /\ calls' = [calls EXCEPT ![r].release_slot = @ + 1]
    /\ UNCHANGED <<now, tokens, locks, image_conc, started, kind, require_pro,
                   token_obj, attempt, start_time, sel, req,
                   cache, client, route, stats>>

\* An exception whose text is the JSON of a cf_shield_429 error is caught in
\* the loop: update_task(failed), the releases, the error chunks, return.
\* SoraClient raises no exception with such a text; the one raise in the
\* loop that carries upstream text is Exception(error_msg) of a failed image
\* task, after its own update_task(failed, error_msg).
PollCfShield(r) ==
    /\ pc[r] = "polling"
    /\ ~is_video(r)
    /\ tasks' = update_task(tasks, r, "failed", NULL, "text")
    /\ locks' = PollLocks(r, locks)
    /\ image_conc' = PollImage(r, image_conc)
    /\ video_conc' = PollVideo(r, video_conc)
    /\ pc' = [pc EXCEPT ![r] = "post_poll"]
    /\ calls' = [calls EXCEPT ![r] = PollCalls(r, @)]
    /\ UNCHANGED <<now, tokens, started, kind, require_pro, token_obj, attempt,
                   start_time, sel, req,
                   cache, client, route, stats>>

\* "For other errors, retry if not last attempt": an exception inside the
\* try of the loop is raised on the last attempt and swallowed before it.
RetryOrRaise(r, T) ==
    IF attempt[r] >= max_attempts(r) - 1
    THEN RaiseToHandler(r, T)
    ELSE LoopHead(r, attempt[r] + 1, start_time[r], T, calls[r])

\* The poll call raises any other exception.
PollError(r) ==
    /\ pc[r] = "polling"
    /\ RetryOrRaise(r, tasks)
    /\ UNCHANGED <<now, tokens, started, kind, require_pro, sel, req,
                   cache, client, route, stats>>

\* What the row of a failed image task carries as error_message, and the
\* message task_resp.get("error_message", "Generation failed") makes of it
\* (every non-empty message is "text").
UpstreamErrorMessages == {"absent", "null", "", "text"}
ErrorMsgOf(m) ==
    CASE m = "absent" -> "text"
      [] m = "null" -> NULL
      [] OTHER -> m

\* The image task is reported failed: update_task(failed, error_msg) and
\* raise Exception(error_msg), inside the try of the loop.
PollImageFailed(r) ==
    /\ pc[r] = "polling"
    /\ ~is_video(r)
    /\ \E m \in UpstreamErrorMessages :
          RetryOrRaise(r, update_task(tasks, r, "failed", NULL, ErrorMsgOf(m)))
    /\ UNCHANGED <<now, tokens, started, kind, require_pro, sel, req,
                   cache, client, route, stats>>

\* After the timeout releases: update_task(failed, "Generation timeout ..."),
\* then raise Exception("Upstream API timeout ...").
FailUpdate(r) ==
    /\ pc[r] = "fail_update"
    /\ RaiseToHandler(r, update_task(tasks, r, "failed", NULL, "text"))
    /\ UNCHANGED <<now, tokens, started, kind, require_pro, sel, req,
                   cache, client, route, stats>>

\* _poll_task_result returned: record_success, the releases, the log.
PostPoll(r) ==
    /\ pc[r] = "post_poll"
    /\ locks' = HandlerLocks(r, locks)
    /\ image_conc' = HandlerImage(r, image_conc)
    /\ video_conc' = HandlerVideo(r, video_conc)
    /\ pc' = [pc EXCEPT ![r] = "done"]
    /\ calls' = [calls EXCEPT ![r] = HandlerCalls(r, @)]
    /\ UNCHANGED <<now, tokens, tasks, started, kind, require_pro, token_obj,
                   attempt, start_time, sel, req,
                   cache, client, route, stats>>

\* The except block ends: record_error, the log, raise.
ErrorExit(r) ==
    /\ pc[r] = "handler"
    /\ pc' = [pc EXCEPT ![r] = "failed"]
    /\ UNCHANGED <<now, tokens, locks, image_conc, video_conc, tasks, started,
                   kind, require_pro, token_obj, attempt, start_time, calls, sel, req,
                   cache, client, route, stats>>

\* The caller closes the stream while the request is suspended after its
\* acquisitions: CancelledError / GeneratorExit is thrown into the coroutine.
\* "except Exception" does not catch either and there is no finally with a
\* release, so the request ends there.
Suspended == {"create", "sleep", "polling", "fail_update", "post_poll", "handler"}

Cancel(r) ==
    /\ pc[r] \in Suspended
    /\ pc' = [pc EXCEPT ![r] = "cancelled"]
    /\ UNCHANGED <<now, tokens, locks, image_conc, video_conc, tasks, started,
                   kind, require_pro, token_obj, attempt, start_time, calls, sel, req,
                   cache, client, route, stats>>

Ended == {"done", "failed", "cancelled"}

\* The request is over and forgotten, its Task row with it; the next request
\* is served.
Recycle(r) ==
    /\ pc[r] \in Ended
    /\ kind' = [kind EXCEPT ![r] = "image"]
    /\ require_pro' = [require_pro EXCEPT ![r] = FALSE]
    /\ tasks' = [x \in DOMAIN tasks \ {r} |-> tasks[x]]
    /\ Locals(r, "idle", {}, 0, 0, NoCalls)
    /\ UNCHANGED <<now, tokens, locks, image_conc, video_conc, started, sel, req,
                   cache, client, route, stats>>

\* One poll_interval passes: every asyncio.sleep(poll_interval) that was
\* running is over and its poll call is sent.
Tick ==
    /\ now < MaxTime
    /\ now' = now + 1
    /\ pc' = [r \in Requests |-> IF pc[r] = "sleep" THEN "polling" ELSE pc[r]]
    /\ UNCHANGED <<tokens, locks, image_conc, video_conc, tasks, started, kind,
                   require_pro, token_obj, attempt, start_time, calls, sel, req,
                   cache, client, route, stats>>

\* The credentials of Spec: enabled, not cooled, not expiring, Sora2 without
\* cooldown; credential 1 on a Plus plan with both ceilings set, the others
\* on Pro with the video ceiling set and image_concurrency left at the
\* default of the Token model, -1 (no limit).
SpecRow(t) ==
    TokenRow(t, TRUE, FALSE, {}, MaxTime + 1,
             IF t = 1 THEN "chatgpt_plus" ELSE "chatgpt_pro",
             TRUE, {}, TRUE, TRUE,
             IF t = 1 THEN ImageConcurrency ELSE -1, VideoConcurrency)

SelIdle ==
    [stage |-> "idle", fi |-> FALSE, fv |-> FALSE, rp |-> FALSE, active |-> {},
     todo |-> <<>>, avail |-> {}, reloaded |-> {}, result |-> {}, writes |-> 0,
     check |-> FALSE, model_pro |-> FALSE]

\* ---------------------------------- CredentialStats, RequestLog, the stream
\* admin_config.error_ban_threshold, its default
error_ban_threshold == 3
\* number of requests SpecReq follows one after the other
MaxRequests == 2
\* longest time one attempt of the polling loop takes
MaxDelay == 3

\* A row of token_stats: lifetime and today error counters, the date stamp of
\* the today counters ("today" or an earlier day) and the consecutive count.
Stats(ec, tc, td, cc) ==
    [error_count |-> ec, today_error_count |-> tc, today_date |-> td,
     consecutive_error_count |-> cc]

\* Database.increment_error_count: the today counter restarts at 1 when the
\* stamp is not today's date; consecutive_error_count moves only with
\* increment_consecutive.
increment_error_count_Always(S, increment_consecutive) ==
    Stats(S.error_count + 1,
          IF S.today_date # "today" THEN 1 ELSE S.today_error_count + 1,
          "today",
          S.consecutive_error_count + 1)

increment_error_count(S, increment_consecutive) ==
    Stats(S.error_count + 1,
          IF S.today_date # "today" THEN 1 ELSE S.today_error_count + 1,
          "today",
          IF increment_consecutive THEN S.consecutive_error_count + 1
          ELSE S.consecutive_error_count)

\* Database.reset_error_count
reset_error_count(S) == [S EXCEPT !.consecutive_error_count = 0]

\* TokenManager.record_success: "resets consecutive-error".
record_success(S) == reset_error_count(S)

\* TokenManager.record_error: "increments total and today error counters;
\* increments consecutive-error only when the cause is [not] overload". For
\* an overload the consecutive count is either left as it is or reset ("reset
\* on any success or overload-class error"): both outcomes are kept.
record_error(S, is_overload) ==
    IF is_overload
    THEN {increment_error_count(S, FALSE),
          reset_error_count(increment_error_count(S, FALSE))}
    ELSE {increment_error_count(S, TRUE)}

\* "when consecutive_error_count >= error_ban_threshold, the credential is
\* disabled": is_active after record_error has left the statistics S.
auto_ban(S, active) ==
    active /\ S.consecutive_error_count < error_ban_threshold

\* _log_request(..., status_code = -1, duration = -1.0): the row of
\* request_logs the request opens; updates counts update_request_log calls.
OpenLog == {[status_code |-> -1, updates |-> 0]}

\* Database.update_request_log on the log of the request, if it has one
update_request_log(L, status_code) ==
    {[status_code |-> status_code, updates |-> l.updates + 1] : l \in L}

\* What an exception raised to the handler carries as text: a plain message,
\* a message with "heavy_load", the JSON body of an HTTP error whose
\* error.code is unsupported_country_code, JSON with error.code
\* cf_shield_429, the timeout message of _poll_task_result, or the plain
\* message "API request failed: 401 - ..." of an HTTP 401.
Exceptions ==
    {"generic", "overload", "country", "cf_shield", "timeout", "unauthorized"}
\* json.loads(str(e)) gives a dict
IsJson(e) == e \in {"country", "cf_shield"}
is_cf_or_429(e) == e = "cf_shield"
is_overload(e) == e = "overload"

\* Items of the event stream: a chunk of _format_stream_chunk with
\* reasoning_content, one with content and finish_reason "STOP", the error
\* chunk of routes.generate (body: the parsed error or the generic wrapper),
\* the terminator "data: [DONE]" followed by a blank line, and the text of
\* generation_handler.py 1134, "data: [DONE]" followed by the four characters
\* backslash n backslash n and no line end.
Reasoning == [type |-> "reasoning"]
StopChunk == [type |-> "content", finish_reason |-> "STOP"]
ErrorChunk(e) ==
    [type |-> "error", body |-> IF IsJson(e) THEN e ELSE "server_error"]
Done == [type |-> "done"]
DoneEscaped == [type |-> "done_escaped"]

ReqIdle ==
    [pc |-> "idle", kind |-> "image", n |-> 0, stream |-> <<>>, log |-> {},
     stats |-> Stats(0, 0, "today", 0), stats0 |-> Stats(0, 0, "today", 0),
     successes |-> 0, exc |-> "generic", path |-> "none", attempt |-> 0,
     start_time |-> 0, character_id |-> FALSE, failures |-> <<>>,
     is_active |-> TRUE, is_expired |-> FALSE, http |-> 0, defect |-> "none",
     deleted |-> FALSE, wm |-> "off", result |-> "none"]

\* ---- FileCache and SoraClient: what the two objects hold before any call ----

MaxDownloads == 2
Downloads == 1..MaxDownloads

\* A coroutine slot that is not inside download_and_cache.
CallIdle ==
    [pc |-> "idle", url |-> NULL, media_type |-> NULL, filename |-> <<>>,
     fetched |-> FALSE]

\* FileCache.__init__ over an empty cache directory, default_timeout 7200
\* scaled to 2 ticks.
CacheIdle ==
    [files |-> <<>>, default_timeout |-> 2,
     call |-> [i \in Downloads |-> CallIdle]]

NoCall ==
    [method |-> NULL, credential |-> 0, endpoint |-> <<>>, proxy |-> NULL]

NoHeader == [outcome |-> "none", resp |-> NULL, p |-> <<>>]

\* No dedicated proxy on any token, the global proxy disabled and unset.
ClientIdle ==
    [token_proxy |-> [t \in Tokens |-> NULL], proxy_enabled |-> FALSE,
     proxy_url |-> NULL, last |-> NoCall, header |-> NoHeader]

\* No chat request parsed yet.
RouteIdle ==
    [content |-> [form |-> "none", text |-> "", items |-> <<>>],
     image |-> NULL, prompt |-> <<>>, image_data |-> NULL, video_data |-> NULL]

MaxDate == 3
Dates == 1..MaxDate
StatKinds == {"image", "video", "error"}

\* The row of token_stats as the INSERT for a new credential leaves it (the
\* today counters 0, today_date NULL, written 0), the current date, and the
\* events recorded so far on each date.
StatsIdle ==
    [row |-> [today_image_count |-> 0, today_video_count |-> 0,
              today_error_count |-> 0, today_date |-> 0],
     today |-> 1,
     events |-> [d \in Dates |-> [k \in StatKinds |-> 0]]]

Init ==
    /\ now = 0
    /\ tokens = [t \in Tokens |-> SpecRow(t)]
    /\ locks = <<>>
    /\ image_conc = initialize(tokens, "image_concurrency")
    /\ video_conc = initialize(tokens, "video_concurrency")
    /\ tasks = <<>>
    /\ started = 0
    /\ pc = [r \in Requests |-> "idle"]
    /\ kind = [r \in Requests |-> "image"]
    /\ require_pro = [r \in Requests |-> FALSE]
    /\ token_obj = [r \in Requests |-> {}]
    /\ attempt = [r \in Requests |-> 0]
    /\ start_time = [r \in Requests |-> 0]
    /\ calls = [r \in Requests |-> NoCalls]
    /\ sel = SelIdle
    /\ req = ReqIdle
    /\ cache = CacheIdle
    /\ client = ClientIdle
    /\ route = RouteIdle
    /\ stats = StatsIdle

Next ==
    \/ Tick
    \/ \E r \in Requests :
          \/ Start(r)
          \/ SelectAndAcquire(r)
          \/ CreateOk(r)
          \/ CreateFail(r)
          \/ PollContinue(r)
          \/ PollProgress(r)
          \/ PollCompleted(r)
          \/ PollViolation(r)
          \/ PollCfShield(r)
          \/ PollError(r)
          \/ PollImageFailed(r)
          \/ FailUpdate(r)
          \/ PostPoll(r)
          \/ ErrorExit(r)
          \/ Cancel(r)
          \/ Recycle(r)

Spec == Init /\ [][Next]_vars

\* ------------------------------------------------- SpecSel: select_token
\* Writes to the store by other coroutines while one select_token call is
\* suspended
MaxWrites == 1

\* The rows in the order get_active_tokens returns them for credentials that
\* were never used (last_used_at NULL for all): the order of the table.
RECURSIVE SortById(_)
SortById(rows) ==
    IF rows = {} THEN <<>>
    ELSE LET first == CHOOSE row \in rows : \A x \in rows : row.id <= x.id
         IN  <<first>> \o SortById(rows \ {first})

\* select_token, the for_video_generation loop from the row at the head of
\* todo up to its next suspension: the rows it skips or appends without
\* awaiting anything. It stops, with the row still at the head, at a row
\* whose Sora2 cooldown has run out (the refresh is awaited), or at the end.
RECURSIVE VideoScan(_, _)
VideoScan(todo, avail) ==
    IF todo = <<>> THEN [todo |-> <<>>, avail |-> avail]
    ELSE LET token == Head(todo)
         IN  IF ~token.video_enabled \/ ~token.sora2_supported
             THEN VideoScan(Tail(todo), avail)
             ELSE IF NeedsSora2Refresh(token)
             THEN [todo |-> todo, avail |-> avail]
             ELSE IF InSora2Cooldown(token)
             THEN VideoScan(Tail(todo), avail)
             ELSE VideoScan(Tail(todo), avail \cup {token})

\* select_token after the Pro and the video loops: the image loop or the
\* video limiter loop, and the return of random.choice or of None.
SelReturn(base, rows) ==
    LET cands == FinalCandidates(rows, base.fi, base.fv)
    IN  /\ locks' = IF base.fi THEN ImageLockSweep(rows, locks) ELSE locks
        /\ \E res \in (IF cands = {} THEN {{}} ELSE {{row} : row \in cands}) :
              sel' = [base EXCEPT !.stage = "returned", !.result = res]

\* select_token, the video loop going on from todo until it suspends for a
\* refresh or ends
SelContinue(base, todo, avail) ==
    LET scan == VideoScan(todo, avail)
    IN  IF scan.todo # <<>>
        THEN /\ sel' = [base EXCEPT !.stage = "refresh", !.todo = scan.todo,
                                    !.avail = scan.avail]
             /\ UNCHANGED locks
        ELSE SelReturn([base EXCEPT !.todo = <<>>, !.avail = scan.avail],
                       scan.avail)

\* The predicates with which generation_handler calls select_token
SelPredicates ==
    {<<TRUE, FALSE, FALSE>>, <<FALSE, TRUE, FALSE>>, <<FALSE, TRUE, TRUE>>}

\* select_token is called and awaits get_active_tokens
\* (config.at_auto_refresh_enabled is off). With stream = false (check) the
\* call comes from check_token_availability(is_image, is_video), which
\* passes no require_pro whatever the model's require_pro (model_pro) is.
SelCall ==
    /\ sel.stage = "idle"
    /\ \E p \in SelPredicates, chk \in BOOLEAN, mp \in BOOLEAN :
          /\ mp => p[2]
          /\ chk => ~p[3]
          /\ ~chk => mp = p[3]
          /\ sel' = [sel EXCEPT !.stage = "fetch", !.fi = p[1], !.fv = p[2],
                                !.rp = p[3], !.check = chk, !.model_pro = mp]
    /\ UNCHANGED <<now, tokens, locks, image_conc, video_conc, tasks, started,
                   pc, kind, require_pro, token_obj, attempt, start_time, calls, req,
                   cache, client, route, stats>>

\* get_active_tokens returns; the Pro filter; then the video loop up to its
\* first suspension, or straight to the last loop and the return.
SelFetch ==
    /\ sel.stage = "fetch"
    /\ LET active == get_active_tokens
           base == [sel EXCEPT !.active = active]
           pro == ProFilter(active, sel.rp)
       IN  IF sel.fv
           THEN SelContinue(base, SortById(pro), {})
           ELSE SelReturn(base, pro)
    /\ UNCHANGED <<now, tokens, image_conc, video_conc, tasks, started, pc,
                   kind, require_pro, token_obj, attempt, start_time, calls, req,
                   cache, client, route, stats>>

\* token_manager.refresh_sora2_remaining_if_cooldown_expired(token.id) for the
\* row at the head of todo: the remaining count is asked upstream and the
\* cooldown of the stored row is cleared, set anew, or left as it is.
refresh_sora2_remaining_if_cooldown_expired(T, id) ==
    {[T EXCEPT ![id].sora2_cooldown_until = c] :
        c \in {{}, {now + 1}, T[id].sora2_cooldown_until}}

SelRefresh ==
    /\ sel.stage = "refresh"
    /\ tokens' \in refresh_sora2_remaining_if_cooldown_expired(
                       tokens, Head(sel.todo).id)
    /\ sel' = [sel EXCEPT !.stage = "reload"]
    /\ UNCHANGED <<now, locks, image_conc, video_conc, tasks, started, pc, kind,
                   require_pro, token_obj, attempt, start_time, calls, req,
                   cache, client, route, stats>>

\* Database.get_token: SELECT * FROM tokens WHERE id = ?
get_token(id) == tokens[id]

\* "Reload token data after refresh": the row read again is skipped if its
\* cooldown lies in the future and appended otherwise; the loop goes on.
SelReload ==
    /\ sel.stage = "reload"
    /\ LET token == get_token(Head(sel.todo).id)
           avail == IF InSora2Cooldown(token) THEN sel.avail
                    ELSE sel.avail \cup {token}
           base == [sel EXCEPT !.reloaded = @ \cup {token.id}]
       IN  SelContinue(base, Tail(sel.todo), avail)
    /\ UNCHANGED <<now, tokens, image_conc, video_conc, tasks, started, pc,
                   kind, require_pro, token_obj, attempt, start_time, calls, req,
                   cache, client, route, stats>>

\* The call is suspended in a database or upstream call.
SelSuspended == sel.stage \in {"fetch", "refresh", "reload"}

\* Database.update_token_status, Database.mark_token_expired and
\* Database.update_token (the two per-feature flags)
update_token_status(T, id, is_active) == [T EXCEPT ![id].is_active = is_active]
mark_token_expired(T, id) ==
    [T EXCEPT ![id].is_expired = TRUE, ![id].is_active = FALSE]
update_token(T, id, image_enabled, video_enabled) ==
    [T EXCEPT ![id].image_enabled = image_enabled,
              ![id].video_enabled = video_enabled]

WriteDuringSelect(T) ==
    /\ SelSuspended
    /\ sel.writes < MaxWrites
    /\ tokens' = T
    /\ sel' = [sel EXCEPT !.writes = @ + 1]
    /\ UNCHANGED <<now, locks, image_conc, video_conc, tasks, started, pc, kind,
                   require_pro, token_obj, attempt, start_time, calls, req,
                   cache, client, route, stats>>

\* PUT /api/tokens/{id}/status from the admin while the call is suspended
AdminUpdateTokenStatus(t) ==
    \E b \in BOOLEAN :
        /\ b # tokens[t].is_active
        /\ WriteDuringSelect(update_token_status(tokens, t, b))

\* An upstream 401 of another request marks the credential expired.
TokenInvalidated(t) ==
    /\ ~tokens[t].is_expired
    /\ WriteDuringSelect(mark_token_expired(tokens, t))

\* PUT /api/tokens/{id} from the admin with one of the per-feature flags
AdminUpdateToken(t) ==
    \E img, vid \in BOOLEAN :
        /\ (img # tokens[t].image_enabled) # (vid # tokens[t].video_enabled)
        /\ WriteDuringSelect(update_token(tokens, t, img, vid))

\* Time passes before the call or while it is suspended.
TickSel ==
    /\ sel.stage = "idle" \/ SelSuspended
    /\ now < MaxTime
    /\ now' = now + 1
    /\ UNCHANGED <<tokens, locks, image_conc, video_conc, tasks, started, pc,
                   kind, require_pro, token_obj, attempt, start_time, calls, sel, req,
                   cache, client, route, stats>>

\* The rows of SpecSel: the row of Spec, or that row with one column changed.
SelRows(t) ==
    LET good == [SpecRow(t) EXCEPT !.image_concurrency = ImageConcurrency]
    IN  {good,
         [good EXCEPT !.is_active = FALSE],
         [good EXCEPT !.cooled_until = {0}],
         [good EXCEPT !.cooled_until = {MaxTime}],
         [good EXCEPT !.expiry_time = 1],
         [good EXCEPT !.sora2_supported = FALSE],
         [good EXCEPT !.sora2_cooldown_until = {0}],
         [good EXCEPT !.sora2_cooldown_until = {2}],
         [good EXCEPT !.image_enabled = FALSE],
         [good EXCEPT !.video_enabled = FALSE],
         [good EXCEPT !.image_concurrency = -1],
         [good EXCEPT !.video_concurrency = -1]}

\* The limiter with the slots of the credentials in busy all in use
InUse(C, busy) == [t \in DOMAIN C |-> IF t \in busy THEN 0 ELSE C[t]]

\* The store, the lock map and the limiter when select_token is called: any
\* rows, image locks taken at time 0 and slots in use from earlier requests.
InitSel ==
    /\ now = 0
    /\ tokens \in {T \in [Tokens -> UNION {SelRows(t) : t \in Tokens}] :
                      \A t \in Tokens : T[t] \in SelRows(t)}
    /\ \E locked \in SUBSET Tokens : locks = [t \in locked |-> 0]
    /\ \E busy \in SUBSET Tokens :
          /\ image_conc = InUse(initialize(tokens, "image_concurrency"), busy)
          /\ video_conc = InUse(initialize(tokens, "video_concurrency"), busy)
    /\ tasks = <<>>
    /\ started = 0
    /\ pc = [r \in Requests |-> "idle"]
    /\ kind = [r \in Requests |-> "image"]
    /\ require_pro = [r \in Requests |-> FALSE]
    /\ token_obj = [r \in Requests |-> {}]
    /\ attempt = [r \in Requests |-> 0]
    /\ start_time = [r \in Requests |-> 0]
    /\ calls = [r \in Requests |-> NoCalls]
    /\ sel = SelIdle
    /\ req = ReqIdle
    /\ cache = CacheIdle
    /\ client = ClientIdle
    /\ route = RouteIdle
    /\ stats = StatsIdle

NextSel ==
    \/ SelCall
    \/ SelFetch
    \/ SelRefresh
    \/ SelReload
    \/ TickSel
    \/ \E t \in Tokens :
          \/ AdminUpdateTokenStatus(t)
          \/ TokenInvalidated(t)
          \/ AdminUpdateToken(t)

SpecSel == InitSel /\ [][NextSel]_vars

\* ------------------------------------------------- SpecReq: one request
\* One streamed request at a time is followed from routes.generate to the end
\* of its stream, with what it writes to the stream, to its Task, to its
\* RequestLog and to the CredentialStats of its credential. The caller stays
\* connected. req.path names the way the polling ended, req.failures lists
\* the causes record_error has been called with since the start.
ReqFrame ==
    UNCHANGED <<tokens, locks, image_conc, video_conc, started, pc, kind,
                require_pro, token_obj, attempt, start_time, calls, sel,
                cache, client, route, stats>>

\* The branches of handle_generation: those of Kinds and the character branch
\* without a prompt (_handle_character_creation_only), which creates no Task.
ReqKinds == Kinds \cup {"character_only"}

ReqNormal == req.kind \in {"image", "video", "storyboard"}
ReqTimeout == IF req.kind = "image" THEN ImageTimeout ELSE VideoTimeout
ReqMaxAttempts == ReqTimeout
ReqLoopEnds_TimeOnly == now - req.start_time > ReqTimeout

\* range(max_attempts) is exhausted, or the test at the head of an attempt
\* finds elapsed_time > timeout.
ReqLoopEnds ==
    req.attempt >= ReqMaxAttempts \/ now - req.start_time > ReqTimeout

\* routes.generate calls handle_generation(stream=True). With no credential
\* selected the handler raises before its try; otherwise the first reasoning
\* chunk goes out before the upstream create.
ReqStart ==
    /\ req.pc = "idle"
    /\ req.n < MaxRequests
    /\ \E k \in ReqKinds, selected \in BOOLEAN :
          /\ selected => req.is_active
          /\ req' = [req EXCEPT
                       !.pc = IF selected THEN "create" ELSE "routes",
                       !.kind = k, !.n = @ + 1,
                       !.stream = IF selected THEN <<Reasoning>> ELSE <<>>,
                       !.log = {}, !.stats0 = req.stats, !.successes = 0,
                       !.exc = "generic",
                       !.path = IF selected THEN "none" ELSE "no_token",
                       !.attempt = 0, !.start_time = now,
                       !.character_id = FALSE, !.http = 200,
                       !.defect = "none", !.deleted = FALSE,
                       !.wm = "off", !.result = "none"]
    /\ tasks' = <<>>
    /\ UNCHANGED now
    /\ ReqFrame

\* What can be wrong with the body of POST /v1/chat/completions: a model that
\* is not in MODEL_CONFIG, an empty messages list, a content that is neither
\* a string nor a list.
Defects == {"unknown_model", "empty_messages", "bad_content"}

\* create_chat_completion on such a body. A content that is neither str nor
\* List[dict] does not pass the validation of ChatMessage and is answered by
\* the framework with 422 before the function runs. The other two raise
\* HTTPException(status_code=400) inside the try of the function, whose
\* "except Exception" catches it and returns JSONResponse(status_code=500).
ReqReject ==
    /\ req.pc = "idle"
    /\ req.n < MaxRequests
    /\ \E d \in Defects :
          req' = [req EXCEPT !.pc = "rejected", !.n = @ + 1, !.stream = <<>>,
                             !.log = {}, !.stats0 = req.stats,
                             !.successes = 0, !.path = "none", !.defect = d,
                             !.character_id = FALSE, !.deleted = FALSE,
                             !.wm = "off", !.result = "none",
                             !.http = IF d = "bad_content" THEN 422 ELSE 500]
    /\ tasks' = <<>>
    /\ UNCHANGED now
    /\ ReqFrame

\* Exceptions the upstream calls of SoraClient raise: plain text (with or
\* without "heavy_load" in the body, for HTTP 401 as for any other status)
\* and the JSON of unsupported_country_code.
UpstreamExceptions == {"generic", "overload", "country", "unauthorized"}

\* The upstream create (or, in the character branches, a step before it or,
\* without a prompt, set_character_public after finalize_character has
\* returned the character id) raises inside the try of the handler.
ReqCreateFail ==
    /\ req.pc = "create"
    /\ \E e \in UpstreamExceptions, c \in BOOLEAN :
          /\ c => req.kind \in {"character", "character_only"}
          /\ req' = [req EXCEPT !.pc = "handler", !.exc = e,
                                !.path = "create_error", !.character_id = c]
    /\ UNCHANGED <<now, tasks>>
    /\ ReqFrame

\* The create returns a task id: create_task, then handle_generation opens
\* its RequestLog with the sentinels (the other branches pass no log to the
\* polling), record_usage, and _poll_task_result starts.
ReqCreateOk ==
    /\ req.pc = "create"
    /\ req.kind # "character_only"
    /\ tasks' = create_task(tasks, 1)
    /\ req' = [req EXCEPT !.pc = "polling",
                          !.log = IF ReqNormal THEN OpenLog ELSE {},
                          !.attempt = 0, !.start_time = now,
                          !.character_id = (req.kind = "character")]
    /\ UNCHANGED now
    /\ ReqFrame

\* _handle_character_creation_only to its end: the character is finalized
\* and set public, a complete RequestLog row is written, the STOP chunk with
\* the username and the terminator go out. No Task, no polling, no
\* record_success, no delete_character.
ReqCharacterCreated ==
    /\ req.pc = "create"
    /\ req.kind = "character_only"
    /\ req' = [req EXCEPT !.pc = "done", !.path = "success",
                          !.character_id = TRUE,
                          !.stream = @ \o <<StopChunk, Done>>]
    /\ UNCHANGED <<now, tasks>>
    /\ ReqFrame

\* The polling loop ends by time (elapsed_time > timeout, tested at the head
\* of an attempt: update_task(failed), update_request_log(408), raise) or by
\* its attempts (after the loop: update_task(failed), raise).
ReqLoopTimeout ==
    /\ req.pc = "polling"
    /\ ReqLoopEnds
    /\ LET elapsed == req.attempt < ReqMaxAttempts
       IN  req' = [req EXCEPT
                     !.pc = "handler", !.exc = "timeout",
                     !.path = IF elapsed THEN "timeout_elapsed"
                              ELSE "timeout_attempts",
                     !.log = IF elapsed THEN update_request_log(req.log, 408)
                             ELSE req.log]
    /\ tasks' = update_task(tasks, 1, "failed", NULL, "text")
    /\ UNCHANGED now
    /\ ReqFrame

\* An attempt: sleep(poll_interval) and the poll call (with the downloads and
\* the publish steps of a finished result) take d units of time.
ReqAttempt(d) ==
    /\ req.pc = "polling"
    /\ ~ReqLoopEnds
    /\ now' = now + d

\* Still in progress; a progress chunk may go out.
ReqPollContinue ==
    /\ \E d \in 1..MaxDelay : ReqAttempt(d)
    /\ \E c \in BOOLEAN :
          req' = [req EXCEPT !.attempt = @ + 1,
                             !.stream = IF c THEN Append(@, Reasoning) ELSE @]
    /\ UNCHANGED tasks
    /\ ReqFrame

\* The result is there: update_task(completed), the content chunk with
\* finish_reason STOP, the terminator, return.
ReqPollCompleted ==
    /\ \E d \in 1..MaxDelay : ReqAttempt(d)
    /\ tasks' = update_task(tasks, 1, "completed", "[url]", NULL)
    /\ req' = [req EXCEPT !.pc = "post_poll", !.path = "success",
                          !.stream = @ \o <<Reasoning, StopChunk, Done>>]
    /\ ReqFrame

\* The draft is a content violation: update_task(failed), reasoning chunk,
\* STOP chunk, terminator, return.
ReqPollViolation ==
    /\ req.kind # "image"
    /\ \E d \in 1..MaxDelay : ReqAttempt(d)
    /\ tasks' = update_task(tasks, 1, "failed", NULL, "text")
    /\ req' = [req EXCEPT !.pc = "post_poll", !.path = "violation",
                          !.stream = @ \o <<Reasoning, StopChunk, Done>>]
    /\ ReqFrame

\* The except block of the loop for a cf_shield_429 text: update_task(failed),
\* update_request_log(429), reasoning chunk, STOP chunk, the text of line
\* 1134, return.
ReqCfShield(T) ==
    /\ tasks' = update_task(T, 1, "failed", NULL, "text")
    /\ req' = [req EXCEPT !.pc = "post_poll", !.path = "cf_shield",
                          !.exc = "cf_shield",
                          !.log = update_request_log(req.log, 429),
                          !.stream = @ \o <<Reasoning, StopChunk, DoneEscaped>>]

\* The except block of the loop for any other text: raise on the last
\* attempt, else go on with the next attempt.
AfterPollException(e) ==
    IF req.attempt >= ReqMaxAttempts - 1
    THEN [req EXCEPT !.pc = "handler", !.exc = e, !.path = "poll_error"]
    ELSE [req EXCEPT !.attempt = @ + 1]

ReqRetryOrRaise(e, T) ==
    /\ tasks' = T
    /\ req' = AfterPollException(e)

\* The sub-steps of the watermark-free mode that can fail: no id in the draft
\* item, post_video_for_watermark_free raises, it returns no post id, the
\* custom parse server is not configured, get_watermark_free_url_custom
\* raises, download_and_cache of the watermark-free URL raises.
WmFailures ==
    {"no_generation_id", "publish", "no_post_id", "custom_unconfigured",
     "custom_parse", "cache"}

\* What the watermark-free block makes of a finished draft when sub-step f
\* fails ("none": no failure): it raises into the except block of the loop,
\* or it sets local_url. "Generation ID not found" is raised before the inner
\* try; the failures inside it fall back to downloadable_url / url, cached if
\* the cache is enabled and the download works (cache_ok); a failed caching
\* of the watermark-free URL keeps the watermark-free URL.
watermark_free(f, cache_enabled, cache_ok) ==
    CASE f = "no_generation_id" -> "raise"
      [] f \in {"publish", "no_post_id", "custom_unconfigured", "custom_parse"} ->
            IF cache_enabled /\ cache_ok THEN "original_cached" ELSE "original"
      [] f = "cache" -> "watermark_free"
      [] OTHER -> IF cache_enabled THEN "watermark_free_cached"
                  ELSE "watermark_free"

\* A video poll finds the finished draft with watermark-free mode enabled.
ReqPollWatermarkFree ==
    /\ req.kind \notin {"image", "character_only"}
    /\ \E d \in 1..MaxDelay : ReqAttempt(d)
    /\ \E f \in WmFailures \cup {"none"}, ce \in BOOLEAN, ok \in BOOLEAN :
          /\ f = "cache" => ce
          /\ f = "none" => ok
          /\ ok => ce
          /\ LET local_url == watermark_free(f, ce, ok)
             IN  IF local_url = "raise"
                 THEN /\ tasks' = tasks
                      /\ req' = [AfterPollException("generic") EXCEPT !.wm = f]
                 ELSE /\ tasks' = update_task(tasks, 1, "completed", "[url]",
                                              NULL)
                      /\ req' = [req EXCEPT
                                   !.pc = "post_poll", !.path = "success",
                                   !.wm = f, !.result = local_url,
                                   !.stream = @ \o <<Reasoning, StopChunk, Done>>]
    /\ ReqFrame

\* The poll call raises.
ReqPollError ==
    /\ \E d \in 1..MaxDelay : ReqAttempt(d)
    /\ \E e \in UpstreamExceptions : ReqRetryOrRaise(e, tasks)
    /\ ReqFrame

\* The image task is reported failed: update_task(failed, error_msg) and
\* raise Exception(error_msg), the only exception whose text comes from
\* upstream as it is, so that it can be the JSON of cf_shield_429.
ReqPollImageFailed ==
    /\ req.kind = "image"
    /\ \E d \in 1..MaxDelay : ReqAttempt(d)
    /\ \E e \in UpstreamExceptions \cup {"cf_shield"} :
          LET T == update_task(tasks, 1, "failed", NULL, "text")
          IN  IF is_cf_or_429(e) THEN ReqCfShield(T)
              ELSE ReqRetryOrRaise(e, T)
    /\ ReqFrame

\* _poll_task_result has returned: record_success, update_request_log(200);
\* in the character branch the finally block follows.
ReqPostPoll ==
    /\ req.pc = "post_poll"
    /\ req' = [req EXCEPT
                 !.pc = IF req.character_id THEN "cleanup" ELSE "done",
                 !.stats = record_success(@),
                 !.successes = @ + 1,
                 !.log = update_request_log(@, 200)]
    /\ UNCHANGED <<now, tasks>>
    /\ ReqFrame

\* Where an exception goes when the except block has raised again: through
\* the finally block of _handle_character_and_video_generation if it has a
\* character id, else to routes.generate.
AfterHandler_NoFinally == "routes"

AfterHandler ==
    IF req.kind = "character" /\ req.character_id THEN "cleanup" ELSE "routes"

\* The except block of the handler: record_error unless cf_shield_429 (it
\* is given the credential id and is_overload, nothing of the exception), the
\* log update (429 / 400 for JSON text, 500 otherwise), raise.
ReqHandler ==
    /\ req.pc = "handler"
    /\ \E S \in IF is_cf_or_429(req.exc) THEN {req.stats}
                ELSE record_error(req.stats, is_overload(req.exc)) :
          req' = [req EXCEPT
                    !.pc = AfterHandler,
                    !.stats = S,
                    !.is_active = auto_ban(S, @),
                    !.failures = IF is_cf_or_429(req.exc) THEN @
                                 ELSE Append(@, req.exc),
                    !.log = update_request_log(@,
                                IF IsJson(req.exc)
                                THEN (IF is_cf_or_429(req.exc) THEN 429 ELSE 400)
                                ELSE 500)]
    /\ UNCHANGED <<now, tasks>>
    /\ ReqFrame

\* finally of _handle_character_and_video_generation: with a character id, a
\* reasoning chunk "Cleaning up temporary character..." and delete_character.
ReqCleanup ==
    /\ req.pc = "cleanup"
    /\ req' = [req EXCEPT
                 !.deleted = TRUE,
                 !.pc = IF req.path \in {"success", "violation", "cf_shield"}
                        THEN "done" ELSE "routes",
                 !.stream = Append(@, Reasoning)]
    /\ UNCHANGED <<now, tasks>>
    /\ ReqFrame

\* except of routes.generate: the error chunk and the terminator.
ReqRoutes ==
    /\ req.pc = "routes"
    /\ req' = [req EXCEPT !.pc = "failed",
                          !.stream = @ \o <<ErrorChunk(req.exc), Done>>]
    /\ UNCHANGED <<now, tasks>>
    /\ ReqFrame

\* The stream is over; the next request on the same credential is awaited.
ReqNext ==
    /\ req.pc \in {"done", "failed", "rejected"}
    /\ req.n < MaxRequests
    /\ req' = [req EXCEPT !.pc = "idle"]
    /\ UNCHANGED <<now, tasks>>
    /\ ReqFrame

\* The credential's statistics when the first request comes: any consecutive
\* count below the ban threshold, the today counters of today or stale.
InitReq ==
    /\ now = 0
    /\ tokens = [t \in Tokens |-> SpecRow(t)]
    /\ locks = <<>>
    /\ image_conc = initialize(tokens, "image_concurrency")
    /\ video_conc = initialize(tokens, "video_concurrency")
    /\ tasks = <<>>
    /\ started = 0
    /\ pc = [r \in Requests |-> "idle"]
    /\ kind = [r \in Requests |-> "image"]
    /\ require_pro = [r \in Requests |-> FALSE]
    /\ token_obj = [r \in Requests |-> {}]
    /\ attempt = [r \in Requests |-> 0]
    /\ start_time = [r \in Requests |-> 0]
    /\ calls = [r \in Requests |-> NoCalls]
    /\ sel = SelIdle
    /\ \E cc \in 0..(error_ban_threshold - 1), td \in {"today", "earlier"} :
          req = [ReqIdle EXCEPT !.stats = Stats(cc, cc, td, cc),
                                !.stats0 = Stats(cc, cc, td, cc)]
    /\ cache = CacheIdle
    /\ client = ClientIdle
    /\ route = RouteIdle
    /\ stats = StatsIdle

NextReq ==
    \/ ReqStart
    \/ ReqReject
    \/ ReqCharacterCreated
    \/ ReqPollWatermarkFree
    \/ ReqCreateFail
    \/ ReqCreateOk
    \/ ReqLoopTimeout
    \/ ReqPollContinue
    \/ ReqPollCompleted
    \/ ReqPollViolation
    \/ ReqPollError
    \/ ReqPollImageFailed
    \/ ReqPostPoll
    \/ ReqHandler
    \/ ReqCleanup
    \/ ReqRoutes
    \/ ReqNext

SpecReq == InitReq /\ [][NextReq]_vars

\* The event loop resumes the generator of the request whenever the call it
\* awaits has answered (with a result or with an exception) or its sleep is
\* over, and the caller keeps reading the stream: a step of the request that
\* stays possible is taken.
SpecReqFair == SpecReq /\ WF_vars(NextReq)

\* ======================================================================
\* SpecCache: FileCache over its cache directory. cache.files is the
\* directory (filename -> st_mtime), cache.call the coroutines inside
\* download_and_cache, now the clock read by time.time().
\* ======================================================================

MaxCacheTime == 3
Urls == {"u1", "u2"}
MediaTypes == {"image", "video"}
\* -1 is the "never delete" sentinel of default_timeout.
CacheTimeouts == {-1, 2}

CacheFrame ==
    UNCHANGED <<tokens, locks, image_conc, video_conc, tasks, started, pc,
                kind, require_pro, token_obj, attempt, start_time, calls, sel,
                req, client, route, stats>>

\* hashlib.md5(url.encode()).hexdigest(): one digest per URL, distinct for
\* the URLs of the model.
md5(url) == IF url = "u1" THEN "d41d8c" ELSE "9e107d"

generate_cache_filename(url, media_type) ==
    <<md5(url), IF media_type = "video" THEN ".mp4" ELSE ".png">>

\* The test of download_and_cache on an existing file.
not_expired_Shifted(file_age, default_timeout) ==
    file_age + 1 < default_timeout

not_expired(file_age, default_timeout) == file_age < default_timeout

\* file_path.unlink()
unlink(files, filename) ==
    [f \in DOMAIN files \ {filename} |-> files[f]]

\* open(file_path, 'wb') and write: the file exists with st_mtime t.
write(files, filename, t) ==
    [f \in DOMAIN files \cup {filename} |->
        IF f = filename THEN t ELSE files[f]]

\* download_and_cache up to its first await: a hit returns the filename,
\* otherwise an existing file is unlinked and the download begins.
DownloadStart(i, url, media_type) ==
    /\ cache.call[i].pc = "idle"
    /\ LET filename == generate_cache_filename(url, media_type)
           c == [CallIdle EXCEPT !.url = url, !.media_type = media_type,
                                 !.filename = filename]
       IN  IF /\ filename \in DOMAIN cache.files
              /\ not_expired(now - cache.files[filename],
                             cache.default_timeout)
           THEN cache' = [cache EXCEPT !.call[i] = [c EXCEPT !.pc = "returned"]]
           ELSE cache' = [cache EXCEPT
                            !.files = unlink(@, filename),
                            !.call[i] = [c EXCEPT !.pc = "downloading"]]
    /\ UNCHANGED now
    /\ CacheFrame

\* session.get answers: 200 writes the file and returns the filename, any
\* other status raises "Failed to cache file".
DownloadFinish(i) ==
    /\ cache.call[i].pc = "downloading"
    /\ \E status_code \in {200, 404} :
          IF status_code = 200
          THEN cache' = [cache EXCEPT
                           !.files = write(@, cache.call[i].filename, now),
                           !.call[i].pc = "returned",
                           !.call[i].fetched = TRUE]
          ELSE cache' = [cache EXCEPT !.call[i].pc = "raised",
                                      !.call[i].fetched = TRUE]
    /\ UNCHANGED now
    /\ CacheFrame

\* The caller has its filename or its exception; the slot is free again.
DownloadDone(i) ==
    /\ cache.call[i].pc \in {"returned", "raised"}
    /\ cache' = [cache EXCEPT !.call[i] = CallIdle]
    /\ UNCHANGED now
    /\ CacheFrame

\* _cleanup_expired_files, one pass of the periodic task.
cleanup_expired_files(files, default_timeout, current_time) ==
    IF default_timeout = -1 THEN files
    ELSE [f \in {g \in DOMAIN files :
                    ~(current_time - files[g] > default_timeout)} |-> files[f]]

CleanupExpiredFiles ==
    /\ cache' = [cache EXCEPT
                   !.files = cleanup_expired_files(@, cache.default_timeout,
                                                   now)]
    /\ UNCHANGED now
    /\ CacheFrame

clear_all ==
    /\ cache' = [cache EXCEPT !.files = <<>>]
    /\ UNCHANGED now
    /\ CacheFrame

set_timeout(default_timeout) ==
    /\ cache' = [cache EXCEPT !.default_timeout = default_timeout]
    /\ UNCHANGED now
    /\ CacheFrame

CacheTick ==
    /\ now < MaxCacheTime
    /\ now' = now + 1
    /\ UNCHANGED cache
    /\ CacheFrame

InitCache ==
    /\ now = 0
    /\ tokens = [t \in Tokens |-> SpecRow(t)]
    /\ locks = <<>>
    /\ image_conc = initialize(tokens, "image_concurrency")
    /\ video_conc = initialize(tokens, "video_concurrency")
    /\ tasks = <<>>
    /\ started = 0
    /\ pc = [r \in Requests |-> "idle"]
    /\ kind = [r \in Requests |-> "image"]
    /\ require_pro = [r \in Requests |-> FALSE]
    /\ token_obj = [r \in Requests |-> {}]
    /\ attempt = [r \in Requests |-> 0]
    /\ start_time = [r \in Requests |-> 0]
    /\ calls = [r \in Requests |-> NoCalls]
    /\ sel = SelIdle
    /\ req = ReqIdle
    /\ \E default_timeout \in CacheTimeouts :
          cache = [CacheIdle EXCEPT !.default_timeout = default_timeout]
    /\ client = ClientIdle
    /\ route = RouteIdle
    /\ stats = StatsIdle

NextCache ==
    \/ \E i \in Downloads, url \in Urls, media_type \in MediaTypes :
          DownloadStart(i, url, media_type)
    \/ \E i \in Downloads : DownloadFinish(i)
    \/ \E i \in Downloads : DownloadDone(i)
    \/ CleanupExpiredFiles
    \/ clear_all
    \/ \E default_timeout \in CacheTimeouts : set_timeout(default_timeout)
    \/ CacheTick

SpecCache == InitCache /\ [][NextCache]_vars

\* ======================================================================
\* SpecClient: SoraClient's upstream calls. client holds the proxy settings
\* of the database (tokens.proxy_url, proxy_config), the last upstream call
\* with the proxy it was sent through, and the last sentinel header built.
\* ======================================================================

ClientFrame ==
    UNCHANGED <<now, tokens, locks, image_conc, video_conc, tasks, started,
                pc, kind, require_pro, token_obj, attempt, start_time, calls,
                sel, req, cache, route, stats>>

\* tokens.proxy_url and proxy_config.proxy_url: unset or a proxy URL.
TokenProxies == {NULL, "http://dedicated"}
GlobalProxies == {NULL, "http://global"}

\* ProxyManager.get_proxy_url(token_id); token_id 0 stands for None.
get_proxy_url(C, token_id) ==
    IF token_id # 0 /\ C.token_proxy[token_id] # NULL
    THEN C.token_proxy[token_id]
    ELSE IF C.proxy_enabled /\ C.proxy_url # NULL THEN C.proxy_url ELSE NULL

\* Endpoints are kept as their path segments; str.startswith on the
\* endpoints of the client agrees with the prefix test on segments.
startswith(endpoint, prefix) ==
    /\ Len(prefix) <= Len(endpoint)
    /\ SubSeq(endpoint, 1, Len(prefix)) = prefix

allowed_prefixes == {<<"nf", "create">>, <<"video_gen">>}

\* The proxy _make_request sends the call through.
make_request_proxy(C, endpoint, token_id) ==
    LET proxy_url == get_proxy_url(C, token_id)
    IN  IF /\ proxy_url # NULL
           /\ \E prefix \in allowed_prefixes : startswith(endpoint, prefix)
        THEN proxy_url
        ELSE NULL

Method(name, endpoint, passes_token_id, add_sentinel_token) ==
    [name |-> name, endpoint |-> endpoint, passes_token_id |-> passes_token_id,
     add_sentinel_token |-> add_sentinel_token]

\* The methods of SoraClient that go through _make_request: endpoint,
\* whether the credential's id reaches _make_request as token_id, and
\* add_sentinel_token.
SoraMethods ==
    {Method("get_user_info", <<"me">>, FALSE, FALSE),
     Method("upload_image", <<"uploads">>, FALSE, FALSE),
     Method("generate_image", <<"video_gen">>, TRUE, TRUE),
     Method("generate_video", <<"nf", "create">>, TRUE, TRUE),
     Method("get_image_tasks", <<"v2", "recent_tasks">>, TRUE, FALSE),
     Method("get_video_drafts", <<"project_y", "profile", "drafts">>, TRUE,
            FALSE),
     Method("get_pending_tasks", <<"nf", "pending", "v2">>, TRUE, FALSE),
     Method("post_video_for_watermark_free", <<"project_y", "post">>, FALSE,
            TRUE),
     Method("remix_video", <<"nf", "create">>, FALSE, TRUE),
     Method("generate_storyboard", <<"nf", "create", "storyboard">>, FALSE,
            TRUE)}

\* delete_post and delete_character open their own session; the line that
\* would pass the proxy is commented out.
DirectMethods ==
    {[name |-> "delete_post", endpoint |-> <<"project_y", "post", "id">>],
     [name |-> "delete_character",
      endpoint |-> <<"project_y", "characters", "id">>]}

\* The answer of /backend-api/sentinel/req as _build_sentinel_token reads it:
\* proofofwork.required ("absent" also when proofofwork is missing), and
\* proofofwork.seed / .difficulty ("" when missing).
SentinelResponses ==
    [required : {"absent", "false", "true"}, seed : {"", "0.529"},
     difficulty : {"", "0fffff"}]

\* _get_pow_token: "gAAAAAC" + solution.
pow_token == <<"gAAAAAC", "solution">>

\* _solve_pow: the base64 solution, or the error token after
\* POW_MAX_ITERATION misses.
solve_pow(seed, difficulty, success) ==
    IF success THEN "solution_2"
    ELSE "wQ8Lk5FbGpA2NcR9dShT6gYjU7VxZ4D"

\* _build_sentinel_token: seed and difficulty are bound only inside
\* `if proofofwork.get("required")`, and read after it.
build_sentinel_token(pow, resp, success) ==
    IF resp.required # "true"
    THEN [outcome |-> "UnboundLocalError", resp |-> resp, p |-> <<>>]
    ELSE IF resp.seed # "" /\ resp.difficulty # ""
         THEN [outcome |-> "returned", resp |-> resp,
               p |-> <<"gAAAAAB",
                       solve_pow(resp.seed, resp.difficulty, success)>>]
         ELSE [outcome |-> "returned", resp |-> resp, p |-> pow]

\* One call of a SoraClient method for credential c: _make_request picks the
\* proxy and, with add_sentinel_token, builds the sentinel header from the
\* answer resp of the sentinel endpoint.
ClientCall(m, c, resp, success) ==
    /\ LET token_id == IF m.passes_token_id THEN c ELSE 0
       IN  client' = [client EXCEPT
                        !.last = [method |-> m.name, credential |-> c,
                                  endpoint |-> m.endpoint,
                                  proxy |-> make_request_proxy(client,
                                                m.endpoint, token_id)],
                        !.header = IF m.add_sentinel_token
                                   THEN build_sentinel_token(pow_token, resp,
                                                             success)
                                   ELSE NoHeader]
    /\ ClientFrame

ClientDelete(m, c) ==
    /\ client' = [client EXCEPT
                    !.last = [method |-> m.name, credential |-> c,
                              endpoint |-> m.endpoint, proxy |-> NULL],
                    !.header = NoHeader]
    /\ ClientFrame

InitClient ==
    /\ now = 0
    /\ tokens = [t \in Tokens |-> SpecRow(t)]
    /\ locks = <<>>
    /\ image_conc = initialize(tokens, "image_concurrency")
    /\ video_conc = initialize(tokens, "video_concurrency")
    /\ tasks = <<>>
    /\ started = 0
    /\ pc = [r \in Requests |-> "idle"]
    /\ kind = [r \in Requests |-> "image"]
    /\ require_pro = [r \in Requests |-> FALSE]
    /\ token_obj = [r \in Requests |-> {}]
    /\ attempt = [r \in Requests |-> 0]
    /\ start_time = [r \in Requests |-> 0]
    /\ calls = [r \in Requests |-> NoCalls]
    /\ sel = SelIdle
    /\ req = ReqIdle
    /\ cache = CacheIdle
    /\ \E tp \in [Tokens -> TokenProxies], enabled \in BOOLEAN,
          proxy_url \in GlobalProxies :
          client = [ClientIdle EXCEPT !.token_proxy = tp,
                                      !.proxy_enabled = enabled,
                                      !.proxy_url = proxy_url]
    /\ route = RouteIdle
    /\ stats = StatsIdle

NextClient ==
    \/ \E m \in SoraMethods, c \in Tokens, resp \in SentinelResponses,
          success \in BOOLEAN : ClientCall(m, c, resp, success)
    \/ \E m \in DirectMethods, c \in Tokens : ClientDelete(m, c)

SpecClient == InitClient /\ [][NextClient]_vars

\* ======================================================================
\* SpecRoute: create_chat_completion reads the last message of a chat
\* request. A string is kept as the sequence of its pieces, so that the
\* concatenation of strings is the concatenation of sequences.
\* ======================================================================

MaxParts == 3

RouteFrame ==
    UNCHANGED <<now, tokens, locks, image_conc, video_conc, tasks, started,
                pc, kind, require_pro, token_obj, attempt, start_time, calls,
                sel, req, cache, client, stats>>

\* The items of a multimodal content array.
Parts ==
    {[type |-> "text", value |-> "a"], [type |-> "text", value |-> "b"],
     [type |-> "image_url", value |-> "image_1"],
     [type |-> "video_url", value |-> "video_1"]}

\* message.content: a string, or an array of at most MaxParts items.
Contents ==
    {[form |-> "str", text |-> t, items |-> <<>>] : t \in {"a", "b"}}
    \cup {[form |-> "list", text |-> "", items |-> items] :
            items \in UNION {[1..n -> Parts] : n \in 0..MaxParts}}

\* The for loop over the items: the value the loop leaves in the variable
\* that items of type ty assign, starting from initial.
RECURSIVE last_assigned(_, _, _)
last_assigned(items, ty, initial) ==
    IF items = <<>> THEN initial
    ELSE LET item == items[Len(items)]
         IN  IF item.type = ty THEN item.value
             ELSE last_assigned(SubSeq(items, 1, Len(items) - 1), ty, initial)

\* prompt as the route leaves it: the string itself, or what the last text
\* item assigned ("" when there is none).
extract_prompt(content) ==
    IF content.form = "str" THEN <<content.text>>
    ELSE LET text == last_assigned(content.items, "text", "")
         IN  IF text = "" THEN <<>> ELSE <<text>>

\* create_chat_completion up to the call of handle_generation.
CreateChatCompletion(content, image) ==
    /\ route' = [content |-> content, image |-> image,
                 prompt |-> extract_prompt(content),
                 image_data |-> last_assigned(content.items, "image_url",
                                              image),
                 video_data |-> last_assigned(content.items, "video_url",
                                              NULL)]
    /\ RouteFrame

InitRoute ==
    /\ now = 0
    /\ tokens = [t \in Tokens |-> SpecRow(t)]
    /\ locks = <<>>
    /\ image_conc = initialize(tokens, "image_concurrency")
    /\ video_conc = initialize(tokens, "video_concurrency")
    /\ tasks = <<>>
    /\ started = 0
    /\ pc = [r \in Requests |-> "idle"]
    /\ kind = [r \in Requests |-> "image"]
    /\ require_pro = [r \in Requests |-> FALSE]
    /\ token_obj = [r \in Requests |-> {}]
    /\ attempt = [r \in Requests |-> 0]
    /\ start_time = [r \in Requests |-> 0]
    /\ calls = [r \in Requests |-> NoCalls]
    /\ sel = SelIdle
    /\ req = ReqIdle
    /\ cache = CacheIdle
    /\ client = ClientIdle
    /\ route = RouteIdle
    /\ stats = StatsIdle

NextRoute ==
    \E content \in Contents, image \in {NULL, "image_0"} :
        CreateChatCompletion(content, image)

SpecRoute == InitRoute /\ [][NextRoute]_vars

\* ======================================================================
\* SpecLimiter: ConcurrencyManager next to the stored ceilings of table
\* tokens: the admin changes a credential's limits, requests take and give
\* back slots.
\* ======================================================================

MaxCeiling == 2
MaxCounter == 3

\* tokens.image_concurrency / video_concurrency: -1 and 0 mean no limit.
Ceilings == -1..MaxCeiling

\* An optional field of UpdateTokenRequest: {} is None, {n} the value n.
OptionalCeilings == {{}} \cup {{n} : n \in Ceilings}

LimiterFrame ==
    UNCHANGED <<now, locks, tasks, started, pc, kind, require_pro, token_obj,
                attempt, start_time, calls, sel, req, cache, client, route, stats>>

\* Database.update_token, the two ceilings: a column is written only when
\* its argument is not None.
update_token_concurrency(T, id, image_concurrency, video_concurrency) ==
    [T EXCEPT
       ![id].image_concurrency =
           IF image_concurrency = {} THEN @
           ELSE CHOOSE n \in image_concurrency : TRUE,
       ![id].video_concurrency =
           IF video_concurrency = {} THEN @
           ELSE CHOOSE n \in video_concurrency : TRUE]

\* TokenManager.update_token hands its arguments to Database.update_token.
token_manager_update_token(T, id, image_concurrency, video_concurrency) ==
    update_token_concurrency(T, id, image_concurrency, video_concurrency)

\* ConcurrencyManager.reset_token on one of the two maps.
reset_token(C, id, concurrency) ==
    IF concurrency > 0
    THEN [t \in DOMAIN C \cup {id} |-> IF t = id THEN concurrency ELSE C[t]]
    ELSE [t \in DOMAIN C \ {id} |-> C[t]]

\* "request.x if request.x is not None else -1"
OrMinusOne(optional) ==
    IF optional = {} THEN -1 ELSE CHOOSE n \in optional : TRUE

\* PUT /api/tokens/{token_id}: the row is updated, and the counters are
\* reset when one of the two limits was given.
AdminUpdateConcurrency(t, image_concurrency, video_concurrency) ==
    /\ tokens' = token_manager_update_token(tokens, t, image_concurrency,
                                            video_concurrency)
    /\ IF image_concurrency # {} \/ video_concurrency # {}
       THEN /\ image_conc' = reset_token(image_conc, t,
                                         OrMinusOne(image_concurrency))
            /\ video_conc' = reset_token(video_conc, t,
                                         OrMinusOne(video_concurrency))
       ELSE UNCHANGED <<image_conc, video_conc>>
    /\ LimiterFrame

LimiterAcquireImage(t) ==
    /\ image_conc' = acquire_image(image_conc, t)
    /\ UNCHANGED <<tokens, video_conc>>
    /\ LimiterFrame

LimiterAcquireVideo(t) ==
    /\ video_conc' = acquire_video(video_conc, t)
    /\ UNCHANGED <<tokens, image_conc>>
    /\ LimiterFrame

\* A request that took a slot earlier gives it back.
LimiterReleaseImage(t) ==
    /\ t \in DOMAIN image_conc => image_conc[t] < MaxCounter
    /\ image_conc' = release_image(image_conc, t)
    /\ UNCHANGED <<tokens, video_conc>>
    /\ LimiterFrame

LimiterReleaseVideo(t) ==
    /\ t \in DOMAIN video_conc => video_conc[t] < MaxCounter
    /\ video_conc' = release_video(video_conc, t)
    /\ UNCHANGED <<tokens, image_conc>>
    /\ LimiterFrame

\* The rows at startup, and ConcurrencyManager.initialize over them.
InitLimiter ==
    /\ now = 0
    /\ \E ic \in [Tokens -> Ceilings], vc \in [Tokens -> Ceilings] :
          tokens = [t \in Tokens |->
                      [SpecRow(t) EXCEPT !.image_concurrency = ic[t],
                                         !.video_concurrency = vc[t]]]
    /\ locks = <<>>
    /\ image_conc = initialize(tokens, "image_concurrency")
    /\ video_conc = initialize(tokens, "video_concurrency")
    /\ tasks = <<>>
    /\ started = 0
    /\ pc = [r \in Requests |-> "idle"]
    /\ kind = [r \in Requests |-> "image"]
    /\ require_pro = [r \in Requests |-> FALSE]
    /\ token_obj = [r \in Requests |-> {}]
    /\ attempt = [r \in Requests |-> 0]
    /\ start_time = [r \in Requests |-> 0]
    /\ calls = [r \in Requests |-> NoCalls]
    /\ sel = SelIdle
    /\ req = ReqIdle
    /\ cache = CacheIdle
    /\ client = ClientIdle
    /\ route = RouteIdle
    /\ stats = StatsIdle

NextLimiter ==
    \/ \E t \in Tokens, image_concurrency \in OptionalCeilings,
          video_concurrency \in OptionalCeilings :
          AdminUpdateConcurrency(t, image_concurrency, video_concurrency)
    \/ \E t \in Tokens : LimiterAcquireImage(t)
    \/ \E t \in Tokens : LimiterAcquireVideo(t)
    \/ \E t \in Tokens : LimiterReleaseImage(t)
    \/ \E t \in Tokens : LimiterReleaseVideo(t)

SpecLimiter == InitLimiter /\ [][NextLimiter]_vars

\* ======================================================================
\* SpecStats: the today counters of one row of token_stats under
\* increment_image_count, increment_video_count and increment_error_count,
\* with date.today() moving on. stats.events keeps, per date, how many
\* events of each kind were recorded.
\* ======================================================================

MaxEvents == 3

StatsFrame ==
    UNCHANGED <<now, tokens, locks, image_conc, video_conc, tasks, started,
                pc, kind, require_pro, token_obj, attempt, start_time, calls,
                sel, req, cache, client, route>>

\* The UPDATE of increment_<kind>_count on the today columns: "if row and
\* row[0] != today" the today counter of that kind restarts at 1, else it
\* grows by 1; today_date = today either way. No other today counter is in
\* the SET list.
increment_today(row, column, today) ==
    [row EXCEPT ![column] = IF row.today_date # today THEN 1 ELSE @ + 1,
                !.today_date = today]

increment_image_count(row, today) ==
    increment_today(row, "today_image_count", today)

increment_video_count(row, today) ==
    increment_today(row, "today_video_count", today)

increment_error_today(row, today) ==
    increment_today(row, "today_error_count", today)

RECURSIVE SumOver(_, _)
SumOver(f, S) ==
    IF S = {} THEN 0
    ELSE LET x == CHOOSE y \in S : TRUE IN f[x] + SumOver(f, S \ {x})

\* The number of events recorded so far.
Recorded ==
    SumOver([d \in Dates |-> SumOver(stats.events[d], StatKinds)], Dates)

\* One event of kind k is recorded today.
IncrementCount(k) ==
    /\ Recorded < MaxEvents
    /\ stats' = [stats EXCEPT
                   !.row = CASE k = "image" ->
                                  increment_image_count(@, stats.today)
                             [] k = "video" ->
                                  increment_video_count(@, stats.today)
                             [] OTHER ->
                                  increment_error_today(@, stats.today),
                   !.events[stats.today][k] = @ + 1]
    /\ StatsFrame

\* Midnight: date.today() is the next date.
DateChange ==
    /\ stats.today < MaxDate
    /\ stats' = [stats EXCEPT !.today = @ + 1]
    /\ StatsFrame

InitStats ==
    /\ now = 0
    /\ tokens = [t \in Tokens |-> SpecRow(t)]
    /\ locks = <<>>
    /\ image_conc = initialize(tokens, "image_concurrency")
    /\ video_conc = initialize(tokens, "video_concurrency")
    /\ tasks = <<>>
    /\ started = 0
    /\ pc = [r \in Requests |-> "idle"]
    /\ kind = [r \in Requests |-> "image"]
    /\ require_pro = [r \in Requests |-> FALSE]
    /\ token_obj = [r \in Requests |-> {}]
    /\ attempt = [r \in Requests |-> 0]
    /\ start_time = [r \in Requests |-> 0]
    /\ calls = [r \in Requests |-> NoCalls]
    /\ sel = SelIdle
    /\ req = ReqIdle
    /\ cache = CacheIdle
    /\ client = ClientIdle
    /\ route = RouteIdle
    /\ stats = StatsIdle

NextStats ==
    \/ \E k \in StatKinds : IncrementCount(k)
    \/ DateChange

SpecStats == InitStats /\ [][NextStats]_vars


\* ------------------------------------------------------------- claims
\* A request that ran to its end on one of the exit paths of the handler.
Terminated(r) == pc[r] \in {"done", "failed"}

\* C1: every streamed request that acquired the image lock and/or a limiter
\* slot has, when it terminates (success, upstream error, poll timeout by
\* elapsed time or by attempts, content violation, cf_shield_429), called
\* release_lock and the matching release_image / release_video exactly once.
C1_ReleasedExactlyOnce ==
    \A r \in Requests :
        Terminated(r) =>
            /\ calls[r].lock_acquired => calls[r].release_lock = 1
            /\ calls[r].slot_acquired => calls[r].release_slot = 1

\* C2: for every credential with a stored ceiling N > 0 the remaining counter
\* of the limiter stays within 0..N, for images and for videos.
C2_RemainingWithinCeiling ==
    \A t \in Tokens :
        /\ tokens[t].image_concurrency > 0 =>
              /\ t \in DOMAIN image_conc
              /\ image_conc[t] >= 0
              /\ image_conc[t] <= tokens[t].image_concurrency
        /\ tokens[t].video_concurrency > 0 =>
              /\ t \in DOMAIN video_conc
              /\ video_conc[t] >= 0
              /\ video_conc[t] <= tokens[t].video_concurrency

\* An image request between its own successful acquire_lock and its own
\* release: in upload / create or in the poll loop.
HoldsImageLock(r) ==
    /\ kind[r] = "image"
    /\ pc[r] \in {"create", "sleep", "polling"}
    /\ calls[r].lock_acquired
    /\ calls[r].release_lock = 0

\* C3: no two image requests on the same credential are at the same time
\* between their own acquire_lock and their own release, also when the lock
\* entry of the first has become older than lock_timeout.
C3_ImageRequestsSerialized ==
    \A r1, r2 \in Requests :
        (r1 # r2 /\ HoldsImageLock(r1) /\ HoldsImageLock(r2))
            => Tok(r1).id # Tok(r2).id

\* The video generations created on credential t (normal, storyboard, remix,
\* character with prompt) that have not reached a terminal outcome.
VideosInFlight(t) ==
    {r \in Requests : /\ is_video(r)
                      /\ calls[r].create = {t}
                      /\ pc[r] \in {"sleep", "polling"}}

\* C4: on a credential with video_concurrency N > 0 the number of created
\* video generations that have not reached a terminal outcome is at most N.
C4_VideosWithinCeiling ==
    \A t \in Tokens :
        tokens[t].video_concurrency > 0 =>
            Cardinality(VideosInFlight(t)) <= tokens[t].video_concurrency

\* C5: when the caller closes the stream while the request holds the image
\* lock and/or a limiter slot, the teardown of the request has called the
\* release of each.
C5_CancelReleases ==
    \A r \in Requests :
        pc[r] = "cancelled" =>
            /\ calls[r].lock_acquired => calls[r].release_lock >= 1
            /\ calls[r].slot_acquired => calls[r].release_slot >= 1

\* C9: a request whose model has require_pro = true, in every video branch
\* (normal, storyboard, remix, character), issues its upstream create only
\* on a credential of Pro tier.
C9_ProModelOnProCredential ==
    \A r \in Requests :
        (require_pro[r] /\ is_video(r)) =>
            \A t \in calls[r].create : tokens[t].plan_type = "chatgpt_pro"

\* C10: every Task row has a status among processing, completed and failed;
\* a completed Task has result URLs and no error message, a failed Task has
\* an error message and no result URLs.
C10_TaskShape ==
    \A id \in DOMAIN tasks :
        LET t == tasks[id]
        IN  /\ t.status \in {"processing", "completed", "failed"}
            /\ t.status = "completed" =>
                  /\ t.result_urls \notin {NULL, "", "[]"}
                  /\ t.error_message = NULL
            /\ t.status = "failed" =>
                  /\ t.error_message \notin {NULL, ""}
                  /\ t.result_urls = NULL

\* ------------------------------------------------- claims on select_token
Returned == sel.stage = "returned"
Result == CHOOSE row \in sel.result : TRUE

\* C6: every credential select returns is, when it is returned, enabled, not
\* cooled (cooled_until null or in the past), not expired (expiry in the
\* future) and without the expired flag, also when its row was read again
\* after the Sora2 refresh.
C6_ReturnedIsActive ==
    (Returned /\ sel.result # {}) =>
        /\ Result.is_active
        /\ \A c \in Result.cooled_until : c < now
        /\ Result.expiry_time > now
        /\ ~Result.is_expired

\* A row passes the filters of the for_image loop in the current state.
PassesImage(row) ==
    /\ row.image_enabled
    /\ ~(row.id \in DOMAIN locks /\ now - locks[row.id] <= lock_timeout)
    /\ ~(row.id \in DOMAIN image_conc /\ image_conc[row.id] = 0)

\* C7: select with for_image set returns no credential with image_enabled
\* false, held by a lock entry that is not stale, or with a tracked image
\* counter of 0; and it returns none only when no active credential passes
\* all three.
C7_ImageSelect ==
    (Returned /\ sel.fi) =>
        /\ sel.result # {} => PassesImage(Result)
        /\ sel.result = {} => \A row \in sel.active : ~PassesImage(row)

\* select with for_image returned a credential while another active one was
\* dropped by the image loop.
C7_Witness ==
    /\ Returned
    /\ sel.fi
    /\ sel.result # {}
    /\ \E row \in sel.active : ~PassesImage(row)

\* C8: select with for_video set returns a credential with video_enabled and
\* sora2_supported true, no Sora2 cooldown in the future and a video counter
\* untracked or above 0; it returns none only when no active credential
\* (of the required tier, with no cooldown recorded) passes these filters.
C8_VideoSelect ==
    (Returned /\ sel.fv) =>
        /\ sel.result # {} =>
              /\ Result.video_enabled
              /\ Result.sora2_supported
              /\ \A c \in Result.sora2_cooldown_until : c <= now
              /\ Result.id \notin DOMAIN video_conc \/ video_conc[Result.id] > 0
        /\ sel.result = {} =>
              \A row \in sel.active :
                  \/ sel.rp /\ row.plan_type # "chatgpt_pro"
                  \/ ~row.video_enabled
                  \/ ~row.sora2_supported
                  \/ row.sora2_cooldown_until # {}
                  \/ row.id \in DOMAIN video_conc /\ video_conc[row.id] = 0

\* --------------------------------------------- claims on the Task at the end
\* C11: once a streamed request that created a Task has terminated (its
\* stream ended without the caller closing it), the Task is completed or
\* failed and never still processing, whatever ended the polling: success,
\* violation, cf_shield, timeout, or an upstream failure raised by the last
\* poll attempt.
C11_TerminatedTaskIsTerminal ==
    \A r \in Requests :
        (Terminated(r) /\ r \in DOMAIN tasks) =>
            tasks[r].status \in {"completed", "failed"}

\* ------------------------------------------------- claims on one request
\* The stream of the request is over.
ReqOver == req.pc \in {"done", "failed"}
\* Item i of the stream is a terminator, in either spelling.
IsTerminator(i) == req.stream[i].type \in {"done", "done_escaped"}

\* C12: when the stream of a request that produced a chunk is over, the last
\* chunk before the terminator is a content chunk with finish_reason "STOP"
\* and the terminator comes right after it; on success, content violation,
\* cf_shield_429, timeout and upstream error alike.
C12_StopChunkBeforeTerminator ==
    (ReqOver /\ Len(req.stream) > 0) =>
        \E i \in 2..Len(req.stream) :
            /\ IsTerminator(i)
            /\ \A j \in 1..(i - 1) : ~IsTerminator(j)
            /\ req.stream[i - 1] = StopChunk

\* C13: a stream that is over holds exactly one terminator "data: [DONE]"
\* followed by a blank line, it is the last item, and nothing (reasoning,
\* content or error chunk, or a second terminator in any spelling) comes
\* after it, in every generation branch.
C13_OneTerminatorLast ==
    ReqOver =>
        /\ Len(req.stream) > 0
        /\ req.stream[Len(req.stream)] = Done
        /\ \A i \in 1..(Len(req.stream) - 1) : ~IsTerminator(i)

\* The Task of the request is failed, with an error message.
TaskFailed ==
    /\ 1 \in DOMAIN tasks
    /\ tasks[1].status = "failed"
    /\ tasks[1].error_message \notin {NULL, ""}

\* C14: when the polling met a cf_shield_429 error, then once the request is
\* over its Task is failed and the status code of its RequestLog is 429.
C14_CfShieldLogged429 ==
    (ReqOver /\ req.path = "cf_shield") =>
        /\ TaskFailed
        /\ \A l \in req.log : l.status_code = 429

\* C15: when the request ended because of a cf_shield_429 error, error_count
\* and consecutive_error_count of the credential are what they were before
\* the request: neither incremented nor reset.
C15_CfShieldLeavesCounters ==
    (ReqOver /\ req.exc = "cf_shield") =>
        /\ req.stats.error_count = req.stats0.error_count
        /\ req.stats.consecutive_error_count =
              req.stats0.consecutive_error_count

\* C16: when a video poll found a content violation, then once the request is
\* over its Task is failed with the reason, consecutive_error_count is one
\* above its value before the request and no success has been recorded.
C16_ViolationCountsAsError ==
    (ReqOver /\ req.path = "violation") =>
        /\ TaskFailed
        /\ req.stats.consecutive_error_count =
              req.stats0.consecutive_error_count + 1
        /\ req.successes = 0

\* C17: when the polling loop ended by timeout (elapsed time or attempts),
\* then once the request is over its Task is failed and the status code of
\* its RequestLog is 408.
C17_TimeoutLogged408 ==
    (ReqOver /\ req.path \in {"timeout_elapsed", "timeout_attempts"}) =>
        /\ TaskFailed
        /\ \A l \in req.log : l.status_code = 408

\* C18: a RequestLog opened with the sentinels is updated at most once while
\* the request runs, and once the request is over it has been updated
\* exactly once and its status code is not -1.
C18_LogUpdatedOnce ==
    \A l \in req.log :
        /\ l.updates <= 1
        /\ ReqOver => (l.updates = 1 /\ l.status_code # -1)

\* The today error counter as it counts for today's date.
TodayErrors(S) == IF S.today_date = "today" THEN S.today_error_count ELSE 0

\* C19: when the request failed with the JSON body of
\* unsupported_country_code, the error chunk of the stream carries that body
\* and error_count, the today error count and consecutive_error_count are
\* what they were before the request.
C19_CountryErrorVerbatimUncounted ==
    (req.pc = "failed" /\ req.exc = "country") =>
        /\ \E i \in 1..Len(req.stream) :
              req.stream[i] = [type |-> "error", body |-> "country"]
        /\ req.stats.error_count = req.stats0.error_count
        /\ TodayErrors(req.stats) = TodayErrors(req.stats0)
        /\ req.stats.consecutive_error_count =
              req.stats0.consecutive_error_count

\* Every failure recorded for the credential so far was an overload.
OnlyOverloads == \A i \in 1..Len(req.failures) : req.failures[i] = "overload"

\* C20: when the request failed with an overload error, the lifetime and the
\* today error counter are one above their values before the request and
\* consecutive_error_count is not above its value before; with overload
\* failures alone consecutive_error_count stays below error_ban_threshold.
C20_OverloadNotConsecutive ==
    /\ (req.pc = "failed" /\ req.exc = "overload") =>
          /\ req.stats.error_count = req.stats0.error_count + 1
          /\ TodayErrors(req.stats) = TodayErrors(req.stats0) + 1
          /\ req.stats.consecutive_error_count <=
                req.stats0.consecutive_error_count
    /\ OnlyOverloads =>
          req.stats.consecutive_error_count < error_ban_threshold

\* Two requests in a row failed with an overload error on a credential whose
\* consecutive count is one below the threshold.
C20_Witness ==
    /\ req.pc = "failed"
    /\ req.failures = <<"overload", "overload">>
    /\ req.stats.consecutive_error_count = error_ban_threshold - 1

\* C21: after an upstream call of a generation was answered with HTTP 401,
\* the request has failed with the credential's expired flag set and the
\* credential disabled, and no later request selects that credential (no
\* admin re-enables it here).
C21_UnauthorizedMarksExpired ==
    /\ (req.pc = "failed" /\ req.exc = "unauthorized") =>
          (req.is_expired /\ ~req.is_active)
    /\ (\E i \in 1..Len(req.failures) : req.failures[i] = "unauthorized") =>
          req.pc \notin {"create", "polling", "post_poll"}

\* C22: a request with an unknown model, an empty messages list or a content
\* that is neither a string nor a list is answered with HTTP status 400; no
\* credential is selected and the statistics, the Task table and the
\* RequestLog are as before (SpecReq never touches locks and slots).
C22_InvalidRequestIs400 ==
    req.pc = "rejected" =>
        /\ req.http = 400
        /\ req.stats = req.stats0
        /\ req.log = {}
        /\ tasks = <<>>

\* ------------------------------------------ claims on the availability path
\* C23: while a request with stream = false is handled (its only work is the
\* select of check_token_availability), the Token Lock map, the limiter
\* counters and the Task table stay as they are.
C23_AvailabilityChangesNothing ==
    [][sel.check => UNCHANGED <<locks, image_conc, video_conc, tasks>>]_vars

\* C23, as the code has it: the select of an availability request adds no
\* lock entry and changes none, leaves the limiter counters and the Task table
\* alone, and removes from the Token Lock map only entries older than
\* lock_timeout (is_locked deletes the stale entries it meets).
C23_AvailabilityDropsOnlyStaleLocks ==
    [][sel.check =>
          /\ UNCHANGED <<image_conc, video_conc, tasks>>
          /\ DOMAIN locks' \subseteq DOMAIN locks
          /\ \A t \in DOMAIN locks' : locks'[t] = locks[t]
          /\ \A t \in DOMAIN locks \ DOMAIN locks' : LockExpired(locks, t)]_vars

\* An availability request for an image model has been answered while a
\* lock entry that is not stale is in the map.
C23_Witness ==
    /\ Returned
    /\ sel.check
    /\ sel.fi
    /\ \E t \in DOMAIN locks : ~LockExpired(locks, t)

\* What select_token would draw from in this state with the full predicates
\* of the requested model: for_image / for_video and the model's require_pro.
FullPredicateCandidates ==
    LET pro == ProFilter(get_active_tokens, sel.model_pro)
    IN  FinalCandidates(IF sel.fv THEN VideoFilter(pro) ELSE pro,
                        sel.fi, sel.fv)

\* C24: the availability answer is "available" exactly when select with the
\* full predicates of the requested model has a credential to return in the
\* same state; in particular never for a require_pro model without an
\* eligible Pro credential.
C24_AvailabilityUsesFullPredicates ==
    (Returned /\ sel.check) =>
        (sel.result # {} <=> FullPredicateCandidates # {})

C26_WatermarkFreeFallsBack ==
    req.wm \in WmFailures =>
        /\ req.path = "success"
        /\ 1 \in DOMAIN tasks /\ tasks[1].status = "completed"
        /\ req.result \in {"original", "original_cached"}

\* Call i enters download_and_cache in this step.
Enters(i) == cache.call[i].pc = "idle" /\ cache'.call[i].pc # "idle"

\* C27: with a positive timeout, a call of download_and_cache(U, media_type)
\* that starts less than timeout seconds after the file of an earlier call
\* for (U, media_type) was written returns that file's name and fetches
\* nothing: the two calls make one remote fetch in total.
C27_SecondCallIsHit ==
    [][\A i \in Downloads :
         LET filename == cache'.call[i].filename
         IN  (/\ Enters(i)
              /\ cache.default_timeout > 0
              /\ filename \in DOMAIN cache.files
              /\ now - cache.files[filename] < cache.default_timeout)
             => /\ cache'.call[i].pc = "returned"
                /\ ~cache'.call[i].fetched
                /\ filename = generate_cache_filename(cache'.call[i].url,
                                                      cache'.call[i].media_type)
                /\ cache'.files = cache.files]_vars

\* The first call has fetched and returned, the second returned the same
\* filename without a fetch.
C27_Witness ==
    /\ cache.default_timeout > 0
    /\ \E i, j \in Downloads :
          /\ cache.call[i].pc = "returned" /\ cache.call[i].fetched
          /\ cache.call[j].pc = "returned" /\ ~cache.call[j].fetched
          /\ cache.call[j].url = cache.call[i].url
          /\ cache.call[j].media_type = cache.call[i].media_type
          /\ cache.call[j].filename = cache.call[i].filename
          /\ cache.call[i].filename \in DOMAIN cache.files

\* C28: with the timeout -1, no operation other than clear_all deletes a
\* cached file, and download_and_cache of a URL whose file exists is a hit.
C28_NeverDeleteKeepsFiles ==
    [][(cache.default_timeout = -1 /\ ~clear_all)
         => /\ \A f \in DOMAIN cache.files : f \in DOMAIN cache'.files
            /\ \A i \in Downloads :
                 (Enters(i) /\ cache'.call[i].filename \in DOMAIN cache.files)
                    => cache'.call[i].pc = "returned"]_vars

\* The four creation-class methods of the client.
CreationMethods ==
    {"generate_image", "generate_video", "generate_storyboard", "remix_video"}

\* C29: the proxy of an upstream call is a function of (endpoint, credential
\* proxy, global proxy): a non-creation call uses no proxy, a creation-class
\* call for credential c uses c's dedicated proxy when c has one, else the
\* enabled global proxy, else none.
C29_ProxyOfCall ==
    (client.last.method # NULL /\ client.header.outcome # "UnboundLocalError")
    =>
        LET c == client.last.credential
            dedicated == client.token_proxy[c]
        IN  IF client.last.method \in CreationMethods
            THEN client.last.proxy =
                    IF dedicated # NULL THEN dedicated
                    ELSE IF client.proxy_enabled /\ client.proxy_url # NULL
                         THEN client.proxy_url
                         ELSE NULL
            ELSE client.last.proxy = NULL

\* C30: for every sentinel response the header builder returns without
\* raising; when proofofwork.required is false or absent p is the initial
\* PoW token (prefix gAAAAAC), when it is true with seed and difficulty p is
\* the second solution prefixed with gAAAAAB.
C30_SentinelHeaderBuilt ==
    client.header.outcome # "none" =>
        LET resp == client.header.resp
        IN  /\ client.header.outcome = "returned"
            /\ resp.required # "true" =>
                  client.header.p = pow_token /\ client.header.p[1] = "gAAAAAC"
            /\ (resp.required = "true" /\ resp.seed # "" /\ resp.difficulty # "")
                  => /\ client.header.p[1] = "gAAAAAB"
                     /\ client.header.p[2] \in
                          {solve_pow(resp.seed, resp.difficulty, s) :
                             s \in BOOLEAN}

\* The text parts of a content array, concatenated in order.
RECURSIVE TextParts(_)
TextParts(items) ==
    IF items = <<>> THEN <<>>
    ELSE (IF Head(items).type = "text" THEN <<Head(items).value>> ELSE <<>>)
         \o TextParts(Tail(items))

\* C31: when the content of the last message is the multimodal array, the
\* prompt handed to the orchestrator is the concatenation of all its text
\* parts in order.
C31_PromptConcatenatesTextParts ==
    route.content.form = "list"
        => route.prompt = TextParts(route.content.items)

\* C32: try_acquire(id) returns true exactly when id has no entry or its
\* entry is older than lock_timeout; on true the entry of id carries the
\* current time and the other entries are kept, on false the lock map is
\* unchanged; is_locked(id) returns true exactly where try_acquire(id)
\* would return false.
C32_TryAcquireAndIsLocked ==
    \A id \in Tokens :
        LET free == id \notin DOMAIN locks \/ now - locks[id] > lock_timeout
            after == acquire_lock(locks, id)
        IN  /\ acquire_lock_result(locks, id) <=> free
            /\ free => /\ DOMAIN after = DOMAIN locks \cup {id}
                       /\ after[id] = now
                       /\ \A t \in DOMAIN locks \ {id} : after[t] = locks[t]
            /\ ~free => after = locks
            /\ is_locked_result(locks, id) <=> ~free

\* A request holds a fresh entry while another entry has gone stale: both
\* answers of try_acquire occur in this state.
C32_Witness ==
    /\ \E id \in DOMAIN locks : now - locks[id] > lock_timeout
    /\ \E id \in DOMAIN locks : ~(now - locks[id] > lock_timeout)
    /\ \E r \in Requests : calls[r].lock_acquired

\* The limiter map C agrees with the stored ceiling of credential t: t is
\* tracked exactly when the ceiling is positive, with the ceiling as counter.
ResetTo(C, ceiling, t) ==
    /\ t \in DOMAIN C <=> ceiling > 0
    /\ t \in DOMAIN C => C[t] = ceiling

\* C34: after an admin update of a credential's limits (one that gives at
\* least one of the two), for each modality the limiter tracks the credential
\* iff its stored ceiling is positive and the counter equals the ceiling,
\* also when only one of image_concurrency and video_concurrency is given.
C34_UpdateResetsToCeilings ==
    [][\A t \in Tokens, ic \in OptionalCeilings, vc \in OptionalCeilings :
         ((ic # {} \/ vc # {}) /\ AdminUpdateConcurrency(t, ic, vc))
           => /\ ResetTo(image_conc', tokens'[t].image_concurrency, t)
              /\ ResetTo(video_conc', tokens'[t].video_concurrency, t)]_vars

C36_TodayCountersOfStampDate ==
    stats.row.today_date # 0 =>
        LET on_stamp == stats.events[stats.row.today_date]
        IN  /\ stats.row.today_image_count = on_stamp["image"]
            /\ stats.row.today_video_count = on_stamp["video"]
            /\ stats.row.today_error_count = on_stamp["error"]

\* A poll round: sleep(poll_interval) and the poll call, the only steps of
\* one request that take time.
PollRound == req.pc = "polling" /\ now' # now

\* C37: every streamed request terminates whatever the upstream answers: a
\* poll round is made only while fewer than floor(timeout / poll_interval)
\* rounds have been made, each round either leaves the loop or uses up one of
\* them, and a request that has been started ends with its stream over.
C37_PollingTerminates ==
    /\ [][PollRound =>
            /\ req.attempt < ReqMaxAttempts
            /\ \/ req'.pc # "polling"
               \/ req'.attempt = req.attempt + 1]_vars
    /\ (req.pc \in {"create", "polling"}) ~> ReqOver

\* The upstream kept the task pending for all the rounds and the request
\* ended with the timeout error.
C37_Witness ==
    /\ ReqOver
    /\ req.path = "timeout_attempts"
    /\ req.attempt = ReqMaxAttempts

\* C38: once the upstream has reported status failed for the image task
\* being polled (the Task is marked failed and the request is still in its
\* polling loop), no further poll round is made for that task: the next step
\* of the request leaves the loop without a poll call.
C38_FailedImageStopsPolling ==
    [][(req.pc = "polling" /\ req.kind = "image" /\ TaskFailed) =>
          /\ ~PollRound
          /\ req'.pc # "polling"]_vars

\* The Token Lock entry of the credential of request r was acquired by
\* another request: it was written after r had entered its polling loop (r
\* acquires before its create and never again), and another image request on
\* the same credential is between its own acquire_lock and its own release.
\* r itself has not released yet: its own entry was dropped as stale.
EntryOfAnother(r) ==
    /\ kind[r] = "image"
    /\ pc[r] \in {"polling", "post_poll", "fail_update"}
    /\ calls[r].lock_acquired
    /\ calls[r].release_lock = 0
    /\ token_obj[r] # {}
    /\ Tok(r).id \in DOMAIN locks
    /\ locks[Tok(r).id] > start_time[r]
    /\ \E r2 \in Requests \ {r} :
          HoldsImageLock(r2) /\ Tok(r2).id = Tok(r).id

\* C39: a release_lock issued by a request never removes a Token Lock entry
\* that a different request acquired: after A's entry went stale and B
\* acquired the lock of the same credential, A's release leaves B's entry.
C39_ReleaseKeepsOthersEntry ==
    [][\A r \in Requests :
          (EntryOfAnother(r) /\ calls'[r].release_lock > calls[r].release_lock)
              => Tok(r).id \in DOMAIN locks']_vars

\* record_error has been invoked for the credential since the request began:
\* every record_error adds 1 to error_count and nothing else changes it.
ErrorRecorded == req.stats.error_count > req.stats0.error_count

\* C40: for a streamed request that selected a credential, once it is over at
\* most one of record_success and record_error has been invoked for the
\* credential, and record_success has been invoked only if the Task of the
\* request ended in status completed.
C40_SuccessOnlyForCompletedTask ==
    (ReqOver /\ req.path # "no_token") =>
        /\ ~(req.successes > 0 /\ ErrorRecorded)
        /\ req.successes > 0 =>
              /\ 1 \in DOMAIN tasks
              /\ tasks[1].status = "completed"

====
